---- MODULE Spec2Model ----
(***************************************************************************)
(* A model of the KIND preliminary-earnings pipeline of                    *)
(* scripts/2_DART_Prelim_Earnings.py: the disclosure lister, the document  *)
(* fetcher, the table scorer/extractor, the normalizer with its cell       *)
(* functions, the message formatter and sender, main() with its sent       *)
(* ledger and run_monitor; with them the other senders of the repository,  *)
(* the dashboard page's copy of the extractor and the cache of             *)
(* scripts/3_Global_Earnings.py.                                           *)
(*                                                                         *)
(* Each component has its own specification over its own variables; the    *)
(* variables of the other components stay at their idle values.            *)
(*   SpecLister   search_prelim_earnings_kind, one action per page         *)
(*   SpecFetcher  get_disclosure_document, one action per HTTP request     *)
(*   SpecScore    the score of one table (the body of the scoring loop)    *)
(*   SpecExtract  extract_earnings_table over a document's tables          *)
(*   Spec         main(): list, filter by the ledger, process, send        *)
(*   SpecCell     clean_numeric and standardize_turnaround on one cell     *)
(*   SpecNorm     normalize_earnings_table and format_telegram_message     *)
(*   SpecSend     send_to_telegram, one action per POST                    *)
(*   SpecRow      the row loop of the lister, with the fields of a record  *)
(*   SpecCap      the length of the text each sender POSTs                 *)
(*   SpecCache    collect_all_earnings and its cache file, over runs       *)
(*   SpecBoth     the script's and the dashboard's extractor, side by side *)
(*   SpecRace     one or two monitor processes on one ledger file          *)
(*   SpecMonitor  run_monitor: cycles, waits, interrupts, the date change  *)
(*   FairMonitor  SpecMonitor with the monitor's steps always taken        *)
(***************************************************************************)
EXTENDS Integers, Sequences, FiniteSets, TLC

VARIABLES
    \* ---- search_prelim_earnings_kind
    l_pc,          \* "loop" | "done"
    page,          \* the local `page`
    disclosures,   \* the local list `disclosures`
    l_result,      \* the returned DataFrame, as the sequence of its rows
    requested,     \* history: the pageIndex of every POST made, in order
    sizes,         \* history: len(rows) of every page that was parsed
    failedAt,      \* history: the page whose processing raised, 0 if none
    seen,          \* history: per acptno, how many accepted rows carried it
    \* ---- get_disclosure_document
    f_pc,          \* "viewer" | "post" | "doc" | "done": the next request
    docNo,         \* the local `docNo` (0: None or the empty string)
    doc_url,       \* the local `doc_url`, as <<>> or <<url>>
    f_result,      \* the return value: <<>> for None, <<text>> for a string
    f_http,        \* history: the status of every response (0: no response)
    \* ---- extract_earnings_table
    e_pc,          \* "parse" | "loop" | "return" | "done"
    html_content,  \* the argument
    tables,        \* the list pd.read_html returned
    e_i,           \* the position of the for loop in `tables`
    score,         \* the local `score` of the table scored last
    best_score,    \* the local `best_score`
    best_table,    \* the local `best_table`: <<>> for None, <<df>> for a table
    best_idx,      \* history: the position in `tables` of best_table (0: None)
    e_result,      \* the return value: <<>> for None, <<df>> for a table
    \* ---- main and the sent ledger
    m_pc,          \* "start" | "list" | "process" | "send" | "add_log" | "done"
    mode,          \* the arguments send_telegram and only_new
    ledger,        \* the sent_acptno list of SENT_LOG_FILE
    sent_log,      \* the local `sent_log`
    df_disclosures, \* the local `df_disclosures`, as the sequence of its acptno
    d_i,           \* the position of the processing loop in df_disclosures
    all_long,      \* len(all_long)
    telegram_data, \* the local `telegram_data`, as the sequence of its acptno
    t_i,           \* the position of the send loop in telegram_data
    sent_count,    \* the local `sent_count`
    m_ret,         \* the return value, -1 before main returns
    returned_at,   \* history: which return statement ended the run
    listed,        \* history: what the lister returned to this run
    ledgerAtStart, \* history: the ledger when this run started
    outcomes,      \* history: how each filer of this run fared, in order
    fetched,       \* history: the acptno of every get_disclosure_document call
    sends,         \* history: every send_to_telegram call of this run and its result
    okEver,        \* history: every acptno a send ever returned True for
    \* ---- clean_numeric and standardize_turnaround, called on one cell
    c_pc,          \* "call" | "cleaned" | "labelled" | "relabelled"
    c_val,         \* the argument `val`
    c_num,         \* what clean_numeric returned: <<>> for None, <<x>> for a float
    c_label,       \* what standardize_turnaround returned
    c_label2,      \* what standardize_turnaround returned for c_label
    \* ---- normalize_earnings_table and format_telegram_message
    n_pc,          \* "rows" | "frames" | "returned" | "formatted"
    n_df,          \* the argument `df`: its number of columns and its rows
    filer,         \* the arguments corp_name, stock_code and acptno
    n_idx,         \* the position of the row loop in df
    normalized_rows, \* the local list `normalized_rows`
    row_of,        \* history: the row of df each record was built from
    df_long,       \* the returned df_long, as the sequence of its rows
    df_wide,       \* the returned df_wide, as the sequence of its rows
    msg,           \* the lines format_telegram_message joined
    n_call,        \* history: how many calls have been started on this df
    long_first,    \* history: the df_long of the first call
    df_at_call,    \* history: df as it was when the first call started
    \* ---- send_to_telegram
    s_pc,          \* "start" | "attempt" | "done"
    env_set,       \* BOT_TOKEN and CHAT_ID are both set
    retry,         \* the argument `retry`
    attempt,       \* the loop variable `attempt`
    s_result,      \* the return value: <<>> before the return, <<b>> after
    posts,         \* history: how each POST was answered, in order
    slept,         \* history: the time.sleep after each POST, <<>> if none
    \* ---- the row loop of search_prelim_earnings_kind, field by field
    w_pc,          \* "rows" | "done"
    w_row,         \* the <tr> elements of the page still to visit
    w_record,      \* the local `disclosures`, with every field of a record
    \* ---- the senders of the repository, on one message
    k_pc,          \* "send" | "retry" | "done"
    k_sender,      \* which sender is called
    k_message,     \* len(message) of the formatted message
    k_posted,      \* history: len(text) of every POST
    \* ---- the dashboard page's extract_earnings_table
    g_pc,          \* "parse" | "loop" | "done"
    g_tables,      \* the list pd.read_html returned
    g_i,           \* the position of the for loop in `tables`
    g_best_score,  \* the local `best_score`
    g_best_table,  \* the local `best_table`
    g_best_idx,    \* history: the position in `tables` of best_table (0: None)
    g_result,      \* the return value: <<>> for None, <<df>> for a table
    \* ---- collect_all_earnings and its cache file
    h_clock,       \* the wall clock, in hours
    h_cache,       \* CACHE_FILE: `updated` and, per ticker, the cached data
    h_returned,    \* history: per ticker, what the last run returned
    h_runs,        \* history: the hour of the last run, <<>> before the first
    \* ---- run_monitor
    v_pc,          \* where run_monitor is
    v_interval,    \* the argument interval_minutes, in slots
    v_clock,       \* the wall clock: the slot of the day
    v_now,         \* the local `now` of the cycle
    v_file,        \* the sent_acptno list of SENT_LOG_FILE
    v_sent_log,    \* the local `sent_log` of main
    v_queue,       \* the local `telegram_data` of main, as its acptno
    v_t,           \* the position of the send loop in telegram_data
    v_ok,          \* history: per filing, the sends that returned True today
    v_cut,         \* history: an interrupt disturbed a ledger operation today
    v_unsent,      \* history: the filings whose send returned False today
    v_event,       \* history: what the last step did
    \* ---- two monitor processes on one ledger file
    r_n,           \* the number of monitor processes
    r_pc,          \* per process, where its main is
    r_file,        \* the sent_acptno list of SENT_LOG_FILE
    r_sent_log,    \* per process, the local `sent_log` of main
    r_queue,       \* per process, the telegram_data still to send
    r_sent_set,    \* per process, the local `sent_set` of add_to_sent_log
    r_recorded,    \* history: the acptno add_to_sent_log has returned for
    r_ok           \* history: per acptno, the sends that returned True

listerVars == <<l_pc, page, disclosures, l_result, requested, sizes, failedAt, seen>>

fetcherVars == <<f_pc, docNo, doc_url, f_result, f_http>>

extractVars == <<e_pc, html_content, tables, e_i, score, best_score, best_table, best_idx, e_result>>

mainVars == <<m_pc, mode, ledger, sent_log, df_disclosures, d_i, all_long, telegram_data,
              t_i, sent_count, m_ret, returned_at, listed, ledgerAtStart, outcomes,
              fetched, sends, okEver>>

cellVars == <<c_pc, c_val, c_num, c_label, c_label2>>

normVars == <<n_pc, n_df, filer, n_idx, normalized_rows, row_of, df_long, df_wide, msg,
              n_call, long_first, df_at_call>>

sendVars == <<s_pc, env_set, retry, attempt, s_result, posts, slept>>

rowVars == <<w_pc, w_row, w_record>>

capVars == <<k_pc, k_sender, k_message, k_posted>>

dashVars == <<g_pc, g_tables, g_i, g_best_score, g_best_table, g_best_idx, g_result>>

cacheVars == <<h_clock, h_cache, h_returned, h_runs>>

monVars == <<v_pc, v_interval, v_clock, v_now, v_file, v_sent_log, v_queue, v_t, v_ok,
             v_cut, v_unsent, v_event>>

raceVars == <<r_n, r_pc, r_file, r_sent_log, r_queue, r_sent_set, r_recorded, r_ok>>

\* The components added last, for the UNCHANGED of the other components.
restVars == <<rowVars, capVars, dashVars, cacheVars, monVars, raceVars>>

vars == <<listerVars, fetcherVars, extractVars, mainVars, cellVars, normVars, sendVars,
          restVars>>

(***************************************************************************)
(* Bounds of the model.                                                    *)
(***************************************************************************)
NumIds == 2        \* distinct accession numbers a listing can carry
MaxRows == 2       \* rows of a page that are modelled one by one
MaxOcc == 2        \* the occurrence count of an acptno saturates here
MaxOptions == 2    \* <option> elements of the viewer page's select
NumDocs == 2       \* distinct document tokens
MaxTables == 3     \* tables of one document

AcptNos == 1..NumIds
NoMatch == 0       \* re.search(...) returned None

Min(a, b) == IF a < b THEN a ELSE b

(***************************************************************************)
(* The values of a component's variables while it is not running.          *)
(***************************************************************************)
IdleLister ==
    /\ l_pc = "idle"
    /\ page = 0
    /\ disclosures = <<>>
    /\ l_result = <<>>
    /\ requested = <<>>
    /\ sizes = <<>>
    /\ failedAt = 0
    /\ seen = [a \in AcptNos |-> 0]

IdleFetcher ==
    /\ f_pc = "idle"
    /\ docNo = 0
    /\ doc_url = <<>>
    /\ f_result = <<>>
    /\ f_http = <<>>

IdleExtract ==
    /\ e_pc = "idle"
    /\ html_content = [kind |-> "none", tables |-> <<>>]
    /\ tables = <<>>
    /\ e_i = 0
    /\ score = 0
    /\ best_score = 0
    /\ best_table = <<>>
    /\ best_idx = 0
    /\ e_result = <<>>

\* The locals of main and the histories of one run, before the run.
FreshRun ==
    /\ mode = [send_telegram |-> FALSE, only_new |-> FALSE]
    /\ sent_log = {}
    /\ df_disclosures = <<>>
    /\ d_i = 0
    /\ all_long = 0
    /\ telegram_data = <<>>
    /\ t_i = 0
    /\ sent_count = 0
    /\ m_ret = -1
    /\ returned_at = ""
    /\ listed = <<>>
    /\ ledgerAtStart = {}
    /\ outcomes = <<>>
    /\ fetched = <<>>
    /\ sends = <<>>

IdleMain ==
    /\ m_pc = "idle"
    /\ ledger = {}
    /\ okEver = {}
    /\ FreshRun

IdleCell ==
    /\ c_pc = "idle"
    /\ c_val = <<>>
    /\ c_num = <<>>
    /\ c_label = <<>>
    /\ c_label2 = <<>>

IdleNorm ==
    /\ n_pc = "idle"
    /\ n_df = [ncols |-> 0, rows |-> <<>>]
    /\ filer = 0
    /\ n_idx = 0
    /\ normalized_rows = <<>>
    /\ row_of = <<>>
    /\ df_long = <<>>
    /\ df_wide = <<>>
    /\ msg = <<>>
    /\ n_call = 0
    /\ long_first = <<>>
    /\ df_at_call = [ncols |-> 0, rows |-> <<>>]

IdleSend ==
    /\ s_pc = "idle"
    /\ env_set = FALSE
    /\ retry = 0
    /\ attempt = 0
    /\ s_result = <<>>
    /\ posts = <<>>
    /\ slept = <<>>

IdleRow ==
    /\ w_pc = "idle"
    /\ w_row = <<>>
    /\ w_record = <<>>

IdleCap ==
    /\ k_pc = "idle"
    /\ k_sender = ""
    /\ k_message = 0
    /\ k_posted = <<>>

IdleDash ==
    /\ g_pc = "idle"
    /\ g_tables = <<>>
    /\ g_i = 0
    /\ g_best_score = 0
    /\ g_best_table = <<>>
    /\ g_best_idx = 0
    /\ g_result = <<>>

IdleCache ==
    /\ h_clock = 0
    /\ h_cache = <<>>
    /\ h_returned = <<>>
    /\ h_runs = <<>>

IdleMon ==
    /\ v_pc = "idle"
    /\ v_interval = 0
    /\ v_clock = 0
    /\ v_now = 0
    /\ v_file = {}
    /\ v_sent_log = {}
    /\ v_queue = <<>>
    /\ v_t = 0
    /\ v_ok = <<>>
    /\ v_cut = FALSE
    /\ v_unsent = {}
    /\ v_event = <<>>

IdleRace ==
    /\ r_n = 0
    /\ r_pc = <<>>
    /\ r_file = {}
    /\ r_sent_log = <<>>
    /\ r_queue = <<>>
    /\ r_sent_set = <<>>
    /\ r_recorded = {}
    /\ r_ok = <<>>

IdleRest == IdleRow /\ IdleCap /\ IdleDash /\ IdleCache /\ IdleMon /\ IdleRace

(***************************************************************************)
(* The lister: search_prelim_earnings_kind.                                *)
(***************************************************************************)
max_pages == 10
PAGE_SIZE == 500

\* len(rows) of a page: nothing, fewer rows than MaxRows, a short page, a
\* full page.
RowCounts == {0, 1, 120, PAGE_SIZE}

\* One `tbody tr` row, by what the loop body reads of it.
RowShapes ==
    [ncols : {3, 4},           \* len(row.find_all('td'))
     link : BOOLEAN,           \* cols[2].find('a') is not None
     marker : BOOLEAN,         \* the marker substring is in the title
     acptno : AcptNos \cup {NoMatch}]   \* group(1) of the onclick match

\* The rows a page is drawn from: rows with a title link and a matching
\* onclick, with or without the marker in the title, and one row for each
\* way of failing an earlier filter.
ListingRows ==
    {r \in RowShapes : r.ncols = 4 /\ r.link /\ r.acptno # NoMatch}
    \cup {[ncols |-> 3, link |-> FALSE, marker |-> FALSE, acptno |-> NoMatch],
          [ncols |-> 4, link |-> FALSE, marker |-> FALSE, acptno |-> NoMatch],
          [ncols |-> 4, link |-> TRUE, marker |-> TRUE, acptno |-> NoMatch]}

\* The first Min(n, MaxRows) rows of a page of n rows; the others are rows
\* whose title lacks the marker.
PageRows(n) == [1..Min(n, MaxRows) -> ListingRows]

\* What requests.post + raise_for_status + BeautifulSoup give for one page.
Responses ==
    {[kind |-> "exception", n |-> 0, rows |-> <<>>],      \* transport error
     [kind |-> "http_error", n |-> 0, rows |-> <<>>]}     \* raise_for_status raises
    \cup {[kind |-> "ok", n |-> n, rows |-> rs] : n \in RowCounts, rs \in UNION {PageRows(m) : m \in RowCounts}}

\* The `continue` filters of the row loop (lines 190-209).
KeepRow(row) ==
    /\ row.ncols >= 4
    /\ row.link
    /\ row.marker
    /\ row.acptno # NoMatch

\* The record appended for a row; occ is the history label of the row: it is
\* the occ-th accepted row of the listing that carries this acptno.
RowRecord(row, occ) == [acptno |-> row.acptno, title_marker |-> row.marker, occ |-> occ]

\* Lines 213-240: skip a row whose acptno is already listed, else append.
AddRowLastWins(ds, rec) ==
    IF \E j \in 1..Len(ds) : ds[j].acptno = rec.acptno
    THEN [j \in 1..Len(ds) |-> IF ds[j].acptno = rec.acptno THEN rec ELSE ds[j]]
    ELSE Append(ds, rec)

AddRow(ds, rec) ==
    IF \E j \in 1..Len(ds) : ds[j].acptno = rec.acptno
    THEN ds
    ELSE Append(ds, rec)

\* The `for row in rows` loop over the first i rows, threading the list and
\* the occurrence counts.
RECURSIVE ProcessRows(_, _, _, _)
ProcessRows(ds, cnt, rows, i) ==
    IF i = 0 THEN [ds |-> ds, cnt |-> cnt]
    ELSE LET st == ProcessRows(ds, cnt, rows, i - 1)
             row == rows[i]
         IN  IF KeepRow(row)
             THEN [ds |-> AddRow(st.ds, RowRecord(row, Min(st.cnt[row.acptno] + 1, MaxOcc))),
                   cnt |-> [st.cnt EXCEPT ![row.acptno] = Min(@ + 1, MaxOcc)]]
             ELSE st

InitLister ==
    /\ l_pc = "loop"
    /\ page = 1
    /\ disclosures = <<>>
    /\ l_result = <<>>
    /\ requested = <<>>
    /\ sizes = <<>>
    /\ failedAt = 0
    /\ seen = [a \in AcptNos |-> 0]
    /\ IdleFetcher /\ IdleExtract /\ IdleMain /\ IdleCell /\ IdleNorm /\ IdleSend /\ IdleRest

\* The pagination ceiling of `while page <= max_pages`.
PageCeilingLoose == max_pages + 1

PageCeiling == max_pages

\* One iteration of the while loop (lines 166-247), with the return that
\* follows the loop (249-251) or the except clause (253-255).
FetchPage ==
    /\ l_pc = "loop"
    /\ page <= PageCeiling
    /\ \E resp \in Responses :
        /\ resp.kind = "ok" => Len(resp.rows) = Min(resp.n, MaxRows)
        /\ requested' = Append(requested, page)
        /\ IF resp.kind # "ok"
           THEN \* except Exception: return pd.DataFrame()
                /\ l_pc' = "done"
                /\ l_result' = <<>>
                /\ failedAt' = page
                /\ UNCHANGED <<page, disclosures, sizes, seen>>
           ELSE LET st == ProcessRows(disclosures, seen, resp.rows, Len(resp.rows))
                    leave == resp.n = 0 \/ resp.n < PAGE_SIZE \/ page + 1 > PageCeiling
                IN  /\ sizes' = Append(sizes, resp.n)
                    /\ disclosures' = st.ds
                    /\ seen' = st.cnt
                    /\ page' = IF resp.n = 0 \/ resp.n < PAGE_SIZE THEN page ELSE page + 1
                    /\ l_pc' = IF leave THEN "done" ELSE "loop"
                    /\ l_result' = IF leave THEN st.ds ELSE l_result
                    /\ UNCHANGED failedAt
    /\ UNCHANGED <<fetcherVars, extractVars, mainVars, cellVars, normVars, sendVars, restVars>>

NextLister == FetchPage

SpecLister == InitLister /\ [][NextLister]_vars

\* Every request has a timeout and the loop body has no blocking wait, so an
\* iteration that can run does run.
FairLister == SpecLister /\ WF_vars(FetchPage)

(***************************************************************************)
(* The document fetcher: get_disclosure_document.                          *)
(***************************************************************************)
\* HTTP status codes of a response; 0 stands for no response at all (a
\* timeout or connection error raised by requests).
StatusCodes == {0, 200, 404, 500}

IsHttpError(st) == st >= 400

\* An <option> of select#mainDoc: whether its value holds '|', and the token
\* before the first '|' (0: the empty string).
Options == [bar : BOOLEAN, token : 0..NumDocs]

OptionLists == UNION {[1..n -> Options] : n \in 0..MaxOptions}

\* The viewer page: whether select#mainDoc is there, and its options.
ViewerPages == [select : BOOLEAN, options : OptionLists]

\* Lines 285-290: the token of the first option whose value holds '|'.
RECURSIVE FirstDocNo(_, _)
FirstDocNo(opts, i) ==
    IF i > Len(opts) THEN 0
    ELSE IF opts[i].bar THEN opts[i].token
    ELSE FirstDocNo(opts, i + 1)

\* The POST answer: whether the setPath(...) expression is in the body and
\* whether the URL in it is absolute.
PostBodies == [setPath : BOOLEAN, absolute : BOOLEAN]

\* The encodings of the decode chain (lines 320-326).
Encodings == {"utf-8", "euc-kr", "cp949-ignore"}

InitFetcher ==
    /\ f_pc = "viewer"
    /\ docNo = 0
    /\ doc_url = <<>>
    /\ f_result = <<>>
    /\ f_http = <<>>
    /\ IdleLister /\ IdleExtract /\ IdleMain /\ IdleCell /\ IdleNorm /\ IdleSend /\ IdleRest

\* `return None`, from a return statement or from the except clause.
ReturnNone ==
    /\ f_pc' = "done"
    /\ f_result' = <<>>

\* Lines 274-293: GET the viewer page, raise_for_status, find the token.
ViewerGet ==
    /\ f_pc = "viewer"
    /\ \E st \in StatusCodes, pg \in ViewerPages :
        /\ f_http' = Append(f_http, st)
        /\ IF st = 0 \/ IsHttpError(st)
           THEN ReturnNone /\ UNCHANGED <<docNo, doc_url>>
           ELSE IF ~pg.select
           THEN ReturnNone /\ UNCHANGED <<docNo, doc_url>>
           ELSE /\ docNo' = FirstDocNo(pg.options, 1)
                /\ IF docNo' = 0
                   THEN ReturnNone
                   ELSE f_pc' = "post" /\ UNCHANGED f_result
                /\ UNCHANGED doc_url
    /\ UNCHANGED <<listerVars, extractVars, mainVars, cellVars, normVars, sendVars, restVars>>

\* Lines 296-314: POST the token, search the body for setPath(...). The
\* status of the answer is not looked at.
TokenPost ==
    /\ f_pc = "post"
    /\ \E st \in StatusCodes, body \in PostBodies :
        /\ f_http' = Append(f_http, st)
        /\ IF st = 0
           THEN ReturnNone /\ UNCHANGED doc_url
           ELSE IF ~body.setPath
           THEN ReturnNone /\ UNCHANGED doc_url
           ELSE /\ doc_url' = <<[token |-> docNo, prefixed |-> ~body.absolute]>>
                /\ f_pc' = "doc"
                /\ UNCHANGED f_result
    /\ UNCHANGED <<docNo, listerVars, extractVars, mainVars, cellVars, normVars, sendVars, restVars>>

\* Lines 317-328: GET the document and decode it. The status of the answer is
\* not looked at; the last decoder ignores errors, so one of the three
\* always gives a string.
DocGet ==
    /\ f_pc = "doc"
    /\ \E st \in StatusCodes, enc \in Encodings :
        /\ f_http' = Append(f_http, st)
        /\ IF st = 0
           THEN ReturnNone
           ELSE /\ f_pc' = "done"
                /\ f_result' = <<[url |-> doc_url[1], status |-> st, decoded |-> enc]>>
    /\ UNCHANGED <<docNo, doc_url, listerVars, extractVars, mainVars, cellVars, normVars, sendVars, restVars>>

NextFetcher == ViewerGet \/ TokenPost \/ DocGet

SpecFetcher == InitFetcher /\ [][NextFetcher]_vars

(***************************************************************************)
(* The table scorer and extractor: extract_earnings_table.                 *)
(*                                                                         *)
(* A text is a sequence of syllables and `kw in df_str` is the search for  *)
(* a contiguous subsequence. The syllables are romanised:                  *)
(*   mae chul aek            the Revenue keyword                           *)
(*   yeong eop i ik          the Operating Income keyword                  *)
(*   dang gi sun i ik        the Net Income keyword                        *)
(*   dang gi / dang hae      the current-period keywords                   *)
(*   jeon gi                 the prior-period keyword                      *)
(*   jeon nyeon dong gi      the prior-year-same-period keyword            *)
(*   nu gye                  the cumulative label (not a keyword of the    *)
(*                           scorer)                                       *)
(*   sil jeok                "results", the suffix of the column labels    *)
(***************************************************************************)
KW_REVENUE == <<"mae", "chul", "aek">>
KW_OPERATING == <<"yeong", "eop", "i", "ik">>
KW_NET == <<"dang", "gi", "sun", "i", "ik">>
KW_DANGGI == <<"dang", "gi">>
KW_DANGHAE == <<"dang", "hae">>
KW_JEONGI == <<"jeon", "gi">>
KW_JEONNYEON == <<"jeon", "nyeon", "dong", "gi">>
KW_NUGYE == <<"nu", "gye">>

\* The cell texts a table is made of, in the order the bounds take them.
CellWordList ==
    <<KW_REVENUE,
      KW_OPERATING,
      KW_NET,
      KW_DANGHAE \o <<"sil", "jeok">>,
      KW_JEONGI \o <<"sil", "jeok">>,
      KW_JEONNYEON \o <<"sil", "jeok">>,
      KW_NUGYE \o <<"sil", "jeok">>,
      KW_DANGGI \o <<"sil", "jeok">>>>

CellWords == {CellWordList[i] : i \in 1..Len(CellWordList)}

\* `kw in word` for one cell text.
IsSubstring(kw, word) ==
    \E k \in 0..(Len(word) - Len(kw)) : SubSeq(word, k + 1, k + Len(kw)) = kw

\* `kw in df_str`: df.to_string() renders every cell, separated by blanks.
InText(kw, df) == \E w \in df.text : IsSubstring(kw, w)

\* len(df) and len(df.columns) around the edges of the size test, and 0 rows.
RowSizes == {0, 2, 3, 30, 31}
ColSizes == {2, 3, 15, 16}

\* A table pd.read_html gives: its cell texts and its shape.
AllTables == [text : SUBSET CellWords, nrows : RowSizes, ncols : ColSizes]

\* The tables of the documents with several tables: two of the cell texts,
\* and an empty, a small and a well-sized shape.
ExtractTables ==
    {[text |-> t, nrows |-> sh[1], ncols |-> sh[2]] :
        t \in SUBSET {KW_REVENUE, KW_OPERATING},
        sh \in {<<0, 3>>, <<2, 2>>, <<3, 3>>}}

\* df.empty
IsEmpty(df) == df.nrows = 0 \/ df.ncols = 0

\* Lines 368-388: the score of one table.
TableScoreNoPrior(df) ==
    (IF InText(KW_REVENUE, df) THEN 10 ELSE 0)
    + (IF InText(KW_OPERATING, df) THEN 10 ELSE 0)
    + (IF InText(KW_NET, df) THEN 10 ELSE 0)
    + (IF InText(KW_DANGGI, df) \/ InText(KW_DANGHAE, df) THEN 5 ELSE 0)
    + (IF InText(KW_JEONNYEON, df) THEN 5 ELSE 0)
    + (IF 3 <= df.nrows /\ df.nrows <= 30 /\ 3 <= df.ncols /\ df.ncols <= 15 THEN 5 ELSE 0)

TableScore(df) ==
    (IF InText(KW_REVENUE, df) THEN 10 ELSE 0)
    + (IF InText(KW_OPERATING, df) THEN 10 ELSE 0)
    + (IF InText(KW_NET, df) THEN 10 ELSE 0)
    + (IF InText(KW_DANGGI, df) \/ InText(KW_DANGHAE, df) THEN 5 ELSE 0)
    + (IF InText(KW_JEONGI, df) THEN 5 ELSE 0)
    + (IF InText(KW_JEONNYEON, df) THEN 5 ELSE 0)
    + (IF 3 <= df.nrows /\ df.nrows <= 30 /\ 3 <= df.ncols /\ df.ncols <= 15 THEN 5 ELSE 0)

\* Lines 390-392: whether a scored table replaces the best one so far.
BeatsBestOrTies(sc, best) == sc >= best

BeatsBest(sc, best) == sc > best

\* html_content: None, the empty string, a text pd.read_html raises on, a
\* text with tables.
Documents(tbls, n) ==
    {[kind |-> k, tables |-> <<>>] : k \in {"none", "empty", "unparsable", "text"}}
    \cup {[kind |-> "text", tables |-> ts] : ts \in UNION {[1..m -> tbls] : m \in 1..n}}

InitExtractWith(docs) ==
    /\ e_pc = "parse"
    /\ html_content \in docs
    /\ tables = <<>>
    /\ e_i = 0
    /\ score = 0
    /\ best_score = 0
    /\ best_table = <<>>
    /\ best_idx = 0
    /\ e_result = <<>>
    /\ IdleLister /\ IdleFetcher /\ IdleMain /\ IdleCell /\ IdleNorm /\ IdleSend /\ IdleRest

\* Documents of up to MaxTables tables over a small vocabulary.
InitExtract == InitExtractWith(Documents(ExtractTables, MaxTables))

\* Documents of one table over the whole vocabulary and every shape.
InitScore == InitExtractWith(Documents(AllTables, 1))

\* Lines 345-360: the early returns, pd.read_html, the initial best.
ParseTables ==
    /\ e_pc = "parse"
    /\ IF html_content.kind \in {"none", "empty", "unparsable"} \/ html_content.tables = <<>>
       THEN /\ e_pc' = "done"
            /\ e_result' = <<>>
            /\ UNCHANGED <<tables, e_i, best_score, best_table, best_idx>>
       ELSE /\ tables' = html_content.tables
            /\ e_i' = 1
            /\ best_score' = 0
            /\ best_table' = <<>>
            /\ best_idx' = 0
            /\ e_pc' = "loop"
            /\ UNCHANGED e_result
    /\ UNCHANGED <<html_content, score, listerVars, fetcherVars, mainVars, cellVars, normVars, sendVars, restVars>>

\* Lines 362-392: one iteration of `for df in tables`.
ScoreNext ==
    /\ e_pc = "loop"
    /\ e_i <= Len(tables)
    /\ LET df == tables[e_i]
       IN  IF IsEmpty(df)
           THEN UNCHANGED <<score, best_score, best_table, best_idx>>
           ELSE /\ score' = TableScore(df)
                /\ IF BeatsBest(score', best_score)
                   THEN /\ best_score' = score'
                        /\ best_table' = <<df>>
                        /\ best_idx' = e_i
                   ELSE UNCHANGED <<best_score, best_table, best_idx>>
    /\ e_i' = e_i + 1
    /\ UNCHANGED <<e_pc, html_content, tables, e_result, listerVars, fetcherVars, mainVars, cellVars, normVars, sendVars, restVars>>

\* Line 394: return best_table.
ReturnBest ==
    /\ e_pc = "loop"
    /\ e_i > Len(tables)
    /\ e_pc' = "done"
    /\ e_result' = best_table
    /\ UNCHANGED <<html_content, tables, e_i, score, best_score, best_table, best_idx,
                   listerVars, fetcherVars, mainVars, cellVars, normVars, sendVars, restVars>>

NextExtract == ParseTables \/ ScoreNext \/ ReturnBest

SpecExtract == InitExtract /\ [][NextExtract]_vars

SpecScore == InitScore /\ [][NextExtract]_vars

(***************************************************************************)
(* Claims about the scorer and extractor.                                  *)
(***************************************************************************)
NonEmptyIdx(ts) == {i \in 1..Len(ts) : ~IsEmpty(ts[i])}

\* The greatest score of a non-empty table, 0 when there is none.
MaxScore(ts) ==
    IF NonEmptyIdx(ts) = {} THEN 0
    ELSE CHOOSE m \in {TableScore(ts[i]) : i \in NonEmptyIdx(ts)} :
            \A i \in NonEmptyIdx(ts) : TableScore(ts[i]) <= m

\* The earliest non-empty table with the greatest score.
FirstBest(ts) ==
    CHOOSE k \in NonEmptyIdx(ts) :
        /\ TableScore(ts[k]) = MaxScore(ts)
        /\ \A i \in NonEmptyIdx(ts) : TableScore(ts[i]) = MaxScore(ts) => k <= i

\* C8: extract_earnings_table returns the earliest table in document order
\* whose score is the maximum over the non-empty tables when that maximum
\* is above zero, and None when there is no table or none scores above zero.
BestTableSelected ==
    e_pc = "done" =>
        LET ts == html_content.tables
        IN  IF html_content.kind # "text" \/ NonEmptyIdx(ts) = {} \/ MaxScore(ts) = 0
            THEN e_result = <<>>
            ELSE /\ e_result = <<ts[FirstBest(ts)]>>
                 /\ best_idx = FirstBest(ts)

\* C8 witness: the table returned is preceded by a lower-scoring table and
\* followed by a different table with the same score.
BestTableWitness ==
    /\ e_pc = "done" /\ e_result # <<>>
    /\ \E i \in NonEmptyIdx(tables) : i < best_idx
    /\ \E j \in NonEmptyIdx(tables) :
          j > best_idx /\ tables[j] # tables[best_idx]
          /\ TableScore(tables[j]) = TableScore(tables[best_idx])

RequiredKeywords == {KW_REVENUE, KW_OPERATING, KW_NET}

\* The period indicators the scorer looks for: current period (either of two
\* keywords), prior period, prior-year same period.
PeriodIndicators == {{KW_DANGGI, KW_DANGHAE}, {KW_JEONGI}, {KW_JEONNYEON}}

\* The period indicators as the claim names them: current period,
\* cumulative, prior year.
ClaimedIndicators == {{KW_DANGGI, KW_DANGHAE}, {KW_NUGYE}, {KW_JEONNYEON}}

InSizeWindow(df) == df.nrows \in 3..30 /\ df.ncols \in 3..15

KeywordSum(df, indicators) ==
    10 * Cardinality({k \in RequiredKeywords : InText(k, df)})
    + 5 * Cardinality({p \in indicators : \E k \in p : InText(k, df)})
    + (IF InSizeWindow(df) THEN 5 ELSE 0)

\* The loop has just scored tables[e_i - 1].
JustScored == e_pc = "loop" /\ e_i > 1 /\ ~IsEmpty(tables[e_i - 1])

\* C9 (amended): the score is 10 per required keyword found in the text, plus
\* 5 per period indicator found (current period, prior period, prior-year
\* same period), plus 5 for a shape within [3,30] x [3,15].
ScoreIsKeywordSum ==
    JustScored => score = KeywordSum(tables[e_i - 1], PeriodIndicators)

\* C9 as claimed: the three period indicators are current period,
\* cumulative and prior year.
ScoreAsClaimed ==
    JustScored => score = KeywordSum(tables[e_i - 1], ClaimedIndicators)

\* C9 witness: a table with every keyword and a shape in the window has
\* been scored 50; its text holds the prior-period keyword and the
\* cumulative label.
ScoreWitness ==
    /\ JustScored
    /\ score = 50
    /\ InText(KW_JEONGI, tables[e_i - 1])
    /\ InText(KW_NUGYE, tables[e_i - 1])

HasAllKeywords(df) ==
    /\ \A k \in RequiredKeywords : InText(k, df)
    /\ \A p \in PeriodIndicators : \E k \in p : InText(k, df)

OnlyRequired(df) == df.text = RequiredKeywords

NoKeyword(df) ==
    /\ \A k \in RequiredKeywords : ~InText(k, df)
    /\ \A p \in PeriodIndicators : \A k \in p : ~InText(k, df)

\* C10 as claimed, for the table of a one-table document: whatever the
\* shapes, all keywords score above the required keywords alone, these score
\* above no keyword, and a table with no keyword scores 0 and is not
\* selected.
ScoringMonotoneNoneExcluded ==
    (e_pc = "done" /\ Len(tables) = 1 /\ ~IsEmpty(tables[1])) =>
        LET df == tables[1]
        IN  /\ HasAllKeywords(df) =>
                  \A u \in AllTables : OnlyRequired(u) => score > TableScore(u)
            /\ OnlyRequired(df) =>
                  \A u \in AllTables : NoKeyword(u) => score > TableScore(u)
            /\ NoKeyword(df) => score = 0 /\ e_result = <<>>

(***************************************************************************)
(* Claims about the fetcher.                                               *)
(***************************************************************************)
\* C6 as claimed: the fetcher returns None on every failure of the chain,
\* an HTTP error status on any of the three requests included, and returns a
\* document only when all three requests succeeded.
FetcherFailureContract ==
    f_pc = "done" =>
        /\ (\E i \in 1..Len(f_http) : f_http[i] = 0 \/ IsHttpError(f_http[i])) => f_result = <<>>
        /\ f_result # <<>> =>
              /\ Len(f_http) = 3
              /\ \A i \in 1..3 : f_http[i] = 200

(***************************************************************************)
(* Claims about the lister.                                                *)
(***************************************************************************)
NoDuplicateIds(ds) ==
    \A i, j \in 1..Len(ds) : i # j => ds[i].acptno # ds[j].acptno

PaginationInv ==
    \* pages are requested in the order 1, 2, 3, ...
    /\ \A i \in 1..Len(requested) : requested[i] = i
    \* never more than the ceiling
    /\ Len(requested) <= max_pages
    \* every page before the last parsed one was a full page
    /\ \A i \in 1..(Len(sizes) - 1) : sizes[i] = PAGE_SIZE
    \* while the loop runs, every page so far was full and the next request
    \* can be made
    /\ l_pc = "loop" =>
          /\ Len(requested) = page - 1
          /\ Len(sizes) = Len(requested)
          /\ \A i \in 1..Len(sizes) : sizes[i] = PAGE_SIZE
          /\ ENABLED FetchPage
    \* a normal return follows the first short page or the ceiling, and
    \* returns what was accumulated (the ceiling is no error)
    /\ (l_pc = "done" /\ failedAt = 0) =>
          /\ Len(sizes) = Len(requested)
          /\ Len(sizes) >= 1
          /\ sizes[Len(sizes)] < PAGE_SIZE \/ Len(sizes) = max_pages
          /\ l_result = disclosures
    \* a page that raises ends the loop at once
    /\ (l_pc = "done" /\ failedAt > 0) =>
          /\ Len(requested) = Len(sizes) + 1
          /\ failedAt = Len(requested)
          /\ \A i \in 1..Len(sizes) : sizes[i] = PAGE_SIZE
    \* the example of the specification
    /\ (Len(sizes) >= 3 /\ sizes[1] = PAGE_SIZE /\ sizes[2] = PAGE_SIZE /\ sizes[3] = 120) =>
          l_pc = "done" /\ Len(requested) = 3

\* C4: pages are requested in order 1,2,3,..., the loop stops after the first
\* page with fewer rows than the page size or after max_pages pages, page
\* sizes [500, 500, 120] give exactly 3 requests, the accumulated records
\* are returned at the ceiling, and the loop always terminates.
PaginationTerminates == []PaginationInv /\ <>(l_pc = "done")

\* C4 witness: the listing source of the example.
PaginationWitness ==
    l_pc = "done" /\ sizes = <<PAGE_SIZE, PAGE_SIZE, 120>> /\ Len(requested) = 3

\* C5 as claimed: when page k raises, the lister returns the records it
\* accumulated from pages 1..k-1.
PartialResultsOnFailure ==
    (l_pc = "done" /\ failedAt > 0) => l_result = disclosures

(***************************************************************************)
(* main(): list, filter by the ledger, process each filer, send, record.   *)
(***************************************************************************)
\* The argument pairs main is called with: the command line without and
\* with --telegram, and run_monitor.
Modes ==
    {[send_telegram |-> FALSE, only_new |-> FALSE],
     [send_telegram |-> TRUE, only_new |-> FALSE],
     [send_telegram |-> TRUE, only_new |-> TRUE]}

\* What search_prelim_earnings_kind can return: a list without a repeated
\* acptno, empty when nothing was found or the search failed.
ListerOutputs ==
    {ds \in UNION {[1..n -> AcptNos] : n \in 0..NumIds} :
        \A i, j \in 1..Len(ds) : i # j => ds[i] # ds[j]}

\* How one filer fares in the processing loop: get_disclosure_document gave
\* nothing, extract_earnings_table gave None or an empty table,
\* normalize_earnings_table gave no record, or records were produced.
Outcomes == {"no_html", "no_table", "no_records", "ok"}

IsIn(a, log) == a \in log

\* Line 704: df_disclosures[~df_disclosures['acptno'].isin(sent_log)]
FilterNewKeepAll(ds, log) == ds

FilterNew(ds, log) == SelectSeq(ds, LAMBDA a : ~IsIn(a, log))

\* Lines 727-735 and 758: a filer that cannot be processed is skipped with
\* `continue`; the loop goes on with the next filer.
NextFilerAbort(i, oc, n) == IF oc = "ok" THEN i + 1 ELSE n + 1

NextFiler(i, oc, n) == i + 1

\* Line 772: add_to_sent_log runs inside `if send_to_telegram(msg):`.
AfterSendAlwaysLog(ok) == "add_log"

AfterSend(ok) == IF ok THEN "add_log" ELSE "next"

\* The locals of a call of main and the histories of the run, reset.
NewLocals ==
    /\ df_disclosures' = <<>>
    /\ d_i' = 0
    /\ all_long' = 0
    /\ telegram_data' = <<>>
    /\ t_i' = 0
    /\ sent_count' = 0
    /\ m_ret' = -1
    /\ returned_at' = ""
    /\ listed' = <<>>
    /\ outcomes' = <<>>
    /\ fetched' = <<>>
    /\ sends' = <<>>

InitMain ==
    /\ m_pc = "start"
    /\ ledger = {}
    /\ okEver = {}
    /\ FreshRun
    /\ IdleLister /\ IdleFetcher /\ IdleExtract /\ IdleCell /\ IdleNorm /\ IdleSend /\ IdleRest

\* Lines 685-691: a call of main; the monitoring mode loads the ledger.
StartRun ==
    /\ m_pc \in {"start", "done"}
    /\ \E md \in Modes :
        /\ mode' = md
        /\ sent_log' = IF md.only_new THEN ledger ELSE {}
    /\ ledgerAtStart' = ledger
    /\ m_pc' = "list"
    /\ NewLocals
    /\ UNCHANGED <<ledger, okEver, listerVars, fetcherVars, extractVars, cellVars, normVars, sendVars, restVars>>

\* Lines 693-716: the search, the two early returns, the filter.
ListDisclosures ==
    /\ m_pc = "list"
    /\ \E ds \in ListerOutputs :
        /\ listed' = ds
        /\ IF ds = <<>>
           THEN /\ df_disclosures' = ds
                /\ m_pc' = "done" /\ m_ret' = 0 /\ returned_at' = "no_disclosures"
                /\ UNCHANGED d_i
           ELSE IF mode.only_new /\ FilterNew(ds, sent_log) = <<>>
           THEN /\ df_disclosures' = ds
                /\ m_pc' = "done" /\ m_ret' = 0 /\ returned_at' = "no_new"
                /\ UNCHANGED d_i
           ELSE /\ df_disclosures' = IF mode.only_new THEN FilterNew(ds, sent_log) ELSE ds
                /\ m_pc' = "process" /\ d_i' = 1
                /\ UNCHANGED <<m_ret, returned_at>>
    /\ UNCHANGED <<mode, ledger, sent_log, all_long, telegram_data, t_i, sent_count,
                   ledgerAtStart, outcomes, fetched, sends, okEver,
                   listerVars, fetcherVars, extractVars, cellVars, normVars, sendVars, restVars>>

\* Lines 718-758: one iteration of the processing loop.
ProcessFiler ==
    /\ m_pc = "process"
    /\ d_i <= Len(df_disclosures)
    /\ \E oc \in Outcomes :
        /\ fetched' = Append(fetched, df_disclosures[d_i])
        /\ outcomes' = Append(outcomes, oc)
        /\ IF oc = "ok"
           THEN /\ all_long' = all_long + 1
                /\ telegram_data' = Append(telegram_data, df_disclosures[d_i])
           ELSE UNCHANGED <<all_long, telegram_data>>
        /\ d_i' = NextFiler(d_i, oc, Len(df_disclosures))
    /\ UNCHANGED <<m_pc, mode, ledger, sent_log, df_disclosures, t_i, sent_count, m_ret,
                   returned_at, listed, ledgerAtStart, sends, okEver,
                   listerVars, fetcherVars, extractVars, cellVars, normVars, sendVars, restVars>>

\* Lines 760-770 and 782-805: after the loop, start sending or return.
FinishProcessing ==
    /\ m_pc = "process"
    /\ d_i > Len(df_disclosures)
    /\ IF mode.send_telegram /\ telegram_data # <<>>
       THEN /\ m_pc' = "send" /\ t_i' = 1
            /\ UNCHANGED <<m_ret, returned_at>>
       ELSE /\ m_pc' = "done" /\ m_ret' = sent_count /\ returned_at' = "end"
            /\ UNCHANGED t_i
    /\ UNCHANGED <<mode, ledger, sent_log, df_disclosures, d_i, all_long, telegram_data,
                   sent_count, listed, ledgerAtStart, outcomes, fetched, sends, okEver,
                   listerVars, fetcherVars, extractVars, cellVars, normVars, sendVars, restVars>>

\* The step to the next message, or the return after the last one
\* (lines 771, 784-805).
Advance(count) ==
    /\ t_i' = t_i + 1
    /\ IF t_i + 1 > Len(telegram_data)
       THEN m_pc' = "done" /\ m_ret' = count /\ returned_at' = "end"
       ELSE m_pc' = "send" /\ UNCHANGED <<m_ret, returned_at>>

\* Line 772: send_to_telegram(msg) for the message at t_i.
SendMessage ==
    /\ m_pc = "send"
    /\ \E ok \in BOOLEAN :
        /\ sends' = Append(sends, [acptno |-> telegram_data[t_i], ok |-> ok])
        /\ okEver' = IF ok THEN okEver \cup {telegram_data[t_i]} ELSE okEver
        /\ IF AfterSend(ok) = "add_log"
           THEN m_pc' = "add_log" /\ UNCHANGED <<t_i, m_ret, returned_at>>
           ELSE Advance(sent_count)
    /\ UNCHANGED <<mode, ledger, sent_log, df_disclosures, d_i, all_long, telegram_data,
                   sent_count, listed, ledgerAtStart, outcomes, fetched,
                   listerVars, fetcherVars, extractVars, cellVars, normVars, sendVars, restVars>>

\* Lines 774-775 with add_to_sent_log (122-126): read the file, add, rewrite.
AddToSentLog ==
    /\ m_pc = "add_log"
    /\ ledger' = ledger \cup {telegram_data[t_i]}
    /\ sent_count' = sent_count + 1
    /\ Advance(sent_count + 1)
    /\ UNCHANGED <<mode, sent_log, df_disclosures, d_i, all_long, telegram_data,
                   listed, ledgerAtStart, outcomes, fetched, sends, okEver,
                   listerVars, fetcherVars, extractVars, cellVars, normVars, sendVars, restVars>>

\* The process is killed in the middle of a run; only the ledger file stays.
Crash ==
    /\ m_pc \in {"list", "process", "send", "add_log"}
    /\ m_pc' = "start"
    /\ mode' = [send_telegram |-> FALSE, only_new |-> FALSE]
    /\ sent_log' = {}
    /\ ledgerAtStart' = ledger
    /\ NewLocals
    /\ UNCHANGED <<ledger, okEver, listerVars, fetcherVars, extractVars, cellVars, normVars, sendVars, restVars>>

\* The steps of a run that is not killed.
MainStep == StartRun \/ ListDisclosures \/ ProcessFiler \/ FinishProcessing
              \/ SendMessage \/ AddToSentLog

Next == MainStep \/ Crash

Spec == InitMain /\ [][Next]_vars

(***************************************************************************)
(* Claims about main and the ledger.                                       *)
(***************************************************************************)
SendIds == {sends[k].acptno : k \in 1..Len(sends)}

OkIds == {sends[k].acptno : k \in {j \in 1..Len(sends) : sends[j].ok}}

NotifyThenLedger ==
    /\ ledger \subseteq okEver
    /\ ledger \subseteq ledgerAtStart \cup OkIds
    /\ m_pc = "add_log" =>
          /\ sends # <<>>
          /\ sends[Len(sends)] = [acptno |-> telegram_data[t_i], ok |-> TRUE]
          /\ OkIds \ {telegram_data[t_i]} \subseteq ledger
    /\ m_pc \in {"send", "done"} => OkIds \subseteq ledger

\* C2 witness: one send returned True and its acptno is in the ledger, a
\* later one returned False and its acptno is not.
NotifyThenLedgerWitness ==
    \E j, k \in 1..Len(sends) :
        /\ j < k
        /\ sends[j].ok /\ sends[j].acptno \in ledger
        /\ ~sends[k].ok /\ sends[k].acptno \notin ledger

Count(seq, v) == Cardinality({k \in 1..Len(seq) : seq[k] = v})

MaxCellLen == 3    \* characters of an enumerated numeric cell
MaxLabelLen == 4   \* syllables of an enumerated turnaround cell

NA == <<"<NA>">>

IsNA(val) == val = NA

None == <<>>

Some(x) == <<x>>

DigitList == <<"0", "1", "2", "3", "4", "5", "6", "7", "8", "9">>
DigitChars == {DigitList[i] : i \in 1..Len(DigitList)}

DigitVal(c) == (CHOOSE i \in 1..Len(DigitList) : DigitList[i] = c) - 1

\* str.strip(): the blanks at both ends removed.
RECURSIVE LStrip(_)
LStrip(s) == IF s # <<>> /\ Head(s) = " " THEN LStrip(Tail(s)) ELSE s

RECURSIVE RStrip(_)
RStrip(s) ==
    IF s # <<>> /\ s[Len(s)] = " " THEN RStrip(SubSeq(s, 1, Len(s) - 1)) ELSE s

Strip(s) == LStrip(RStrip(s))

\* str.replace(ch, '')
Remove(s, ch) == SelectSeq(s, LAMBDA c : c # ch)

Pow10(n) == IF n = 0 THEN 1 ELSE IF n = 1 THEN 10 ELSE IF n = 2 THEN 100
            ELSE IF n = 3 THEN 1000 ELSE IF n = 4 THEN 10000 ELSE 100000

RECURSIVE Num(_)
Num(ds) == IF ds = <<>> THEN 0
           ELSE 10 * Num(SubSeq(ds, 1, Len(ds) - 1)) + DigitVal(ds[Len(ds)])

\* A float, as sign, decimal mantissa and number of decimals, with no
\* trailing zero decimal: 12.5 is Float(FALSE, 125, 1), -500.0 is
\* Float(TRUE, 500, 0).
RECURSIVE Float(_, _, _)
Float(neg, mant, scale) ==
    IF scale > 0 /\ mant % 10 = 0 THEN Float(neg, mant \div 10, scale - 1)
    ELSE [neg |-> neg /\ mant # 0, mant |-> mant, scale |-> scale]

\* float(text): blanks at the ends are ignored; an optional sign, then
\* digits with at most one point and at least one digit. Anything else
\* raises ValueError, which is None here.
ParseFloat(text) ==
    LET t == Strip(text)
        signed == t # <<>> /\ t[1] \in {"+", "-"}
        b == IF signed THEN Tail(t) ELSE t
        points == {i \in 1..Len(b) : b[i] = "."}
        digits == Remove(b, ".")
    IN  IF /\ digits # <<>>
           /\ \A i \in 1..Len(digits) : digits[i] \in DigitChars
           /\ Cardinality(points) <= 1
        THEN Some(Float(signed /\ t[1] = "-", Num(digits),
                        IF points = {} THEN 0
                        ELSE Len(b) - (CHOOSE i \in points : TRUE)))
        ELSE None

\* Lines 409-410: a value in parentheses is a negative value.
UnparenKeep(s) == s

Unparen(s) ==
    IF s # <<>> /\ s[1] = "(" /\ s[Len(s)] = ")"
    THEN <<"-">> \o SubSeq(s, 2, Len(s) - 1)
    ELSE s

clean_numeric(val) ==
    IF IsNA(val) \/ val = <<"-">> \/ val = <<>>
    THEN None
    ELSE ParseFloat(Unparen(Remove(Remove(Strip(val), ","), "%")))

\* The turnaround markers and labels, romanised:
\*   heuk ja / heuk jeon      in the black / turned to the black
\*   jeok ja / jeok jeon      in the red / turned to the red
\*   ... jeon hwan            "turnaround"
MARK_PROFIT == {<<"heuk", "ja">>, <<"heuk", "jeon">>}
MARK_LOSS == {<<"jeok", "ja">>, <<"jeok", "jeon">>}
LABEL_PROFIT == <<"heuk", "ja", "jeon", "hwan">>
LABEL_LOSS == <<"jeok", "ja", "jeon", "hwan">>
LABEL_NONE == <<"-">>

HasMarker(marks, text) == \E m \in marks : IsSubstring(m, text)

\* The test of line 425 and of line 427.
HasLossMarkerShort(text) == IsSubstring(<<"jeok", "ja">>, text)

HasLossMarker(text) == HasMarker(MARK_LOSS, text)

standardize_turnaround(val) ==
    IF IsNA(val) THEN LABEL_NONE
    ELSE LET val_str == Strip(val)
         IN  IF HasMarker(MARK_PROFIT, val_str) THEN LABEL_PROFIT
             ELSE IF HasLossMarker(val_str) THEN LABEL_LOSS
             ELSE IF val_str # <<>> /\ val_str # <<"-">> THEN val_str
             ELSE LABEL_NONE

\* The characters and syllables the enumerated cells are made of; "x" is a
\* letter.
CleanChars == {"0", "1", ",", "%", "(", ")", "-", ".", " ", "x"}
LabelTokens == {" ", "-", "heuk", "jeok", "ja", "jeon"}

Texts(alphabet, n) == UNION {[1..k -> alphabet] : k \in 0..n}

\* The cells the spec names.
EX_1234 == <<"1", ",", "2", "3", "4">>
EX_500 == <<"(", "5", "0", "0", ")">>
EX_12_5 == <<"1", "2", ".", "5", "%">>

CellInputs ==
    {NA, EX_1234, EX_500, EX_12_5}
        \cup Texts(CleanChars, MaxCellLen) \cup Texts(LabelTokens, MaxLabelLen)

InitCell ==
    /\ c_pc = "call"
    /\ c_val \in CellInputs
    /\ c_num = <<>>
    /\ c_label = <<>>
    /\ c_label2 = <<>>
    /\ IdleLister /\ IdleFetcher /\ IdleExtract /\ IdleMain /\ IdleNorm /\ IdleSend /\ IdleRest

CallCleanNumeric ==
    /\ c_pc = "call"
    /\ c_num' = clean_numeric(c_val)
    /\ c_pc' = "cleaned"
    /\ UNCHANGED <<c_val, c_label, c_label2,
                   listerVars, fetcherVars, extractVars, mainVars, normVars, sendVars, restVars>>

CallStandardize ==
    /\ c_pc = "call"
    /\ c_label' = standardize_turnaround(c_val)
    /\ c_pc' = "labelled"
    /\ UNCHANGED <<c_val, c_num, c_label2,
                   listerVars, fetcherVars, extractVars, mainVars, normVars, sendVars, restVars>>

\* The label is given to standardize_turnaround once more.
CallStandardizeAgain ==
    /\ c_pc = "labelled"
    /\ c_label2' = standardize_turnaround(c_label)
    /\ c_pc' = "relabelled"
    /\ UNCHANGED <<c_val, c_num, c_label,
                   listerVars, fetcherVars, extractVars, mainVars, normVars, sendVars, restVars>>

NextCell == CallCleanNumeric \/ CallStandardize \/ CallStandardizeAgain

SpecCell == InitCell /\ [][NextCell]_vars

(***************************************************************************)
(* Claims about the cell functions.                                        *)
(***************************************************************************)
Placeholders == {NA, <<"-">>, <<>>}

\* The text of a cell with the thousands separators and the percent signs
\* taken out, and a value in parentheses written with a minus sign.
Cleaned(val) ==
    LET t == Remove(Remove(Strip(val), ","), "%")
    IN  IF t # <<>> /\ Head(t) = "(" /\ t[Len(t)] = ")"
        THEN <<"-">> \o SubSeq(t, 2, Len(t) - 1)
        ELSE t

\* C14: clean_numeric returns null for a dash, an empty cell and a missing
\* value; for every other cell it returns the number its text reads as once
\* separators and percent signs are stripped and parentheses are read as a
\* minus sign, and null, without raising, when that text is not a number:
\* "1,234" gives 1234.0, "(500)" gives -500.0 and "12.5%" gives 12.5.
CleanNumericContract ==
    c_pc = "cleaned" =>
        /\ Len(c_num) <= 1
        /\ c_val \in Placeholders => c_num = None
        /\ c_val \notin Placeholders => c_num = ParseFloat(Cleaned(c_val))
        /\ c_val = EX_1234 => c_num = Some([neg |-> FALSE, mant |-> 1234, scale |-> 0])
        /\ c_val = EX_500 => c_num = Some([neg |-> TRUE, mant |-> 500, scale |-> 0])
        /\ c_val = EX_12_5 => c_num = Some([neg |-> FALSE, mant |-> 125, scale |-> 1])

CleanNumericWitness ==
    /\ c_pc = "cleaned"
    /\ c_val = EX_500
    /\ c_num = Some([neg |-> TRUE, mant |-> 500, scale |-> 0])

ClosedLabels == {LABEL_NONE, LABEL_PROFIT, LABEL_LOSS}

ProfitText(val) == ~IsNA(val) /\ HasMarker(MARK_PROFIT, Strip(val))

LossText(val) == ~IsNA(val) /\ HasMarker(MARK_LOSS, Strip(val))

BlankText(val) == IsNA(val) \/ Strip(val) = <<>> \/ Strip(val) = <<"-">>

\* What the label has to be, with the loss marker read when (lossWhen).
LabelCases(lossWhen) ==
    /\ ProfitText(c_val) => c_label = LABEL_PROFIT
    /\ lossWhen => c_label = LABEL_LOSS
    /\ BlankText(c_val) => c_label = LABEL_NONE
    /\ ~(ProfitText(c_val) \/ LossText(c_val) \/ BlankText(c_val)) => c_label = Strip(c_val)
    /\ c_label \in ClosedLabels \/ (~IsNA(c_val) /\ c_label = Strip(c_val))
    /\ c_pc = "relabelled" => c_label2 = c_label

\* C15: standardize_turnaround returns the swing-to-profit label for a text
\* with a swing-to-profit marker, the swing-to-loss label for a text with a
\* swing-to-loss marker and no swing-to-profit marker, the none label for a
\* missing, empty or dash cell and the trimmed text otherwise; the result is
\* one of the three labels or the trimmed input, and the function maps its
\* own result to itself.
TurnaroundLabels ==
    c_pc \in {"labelled", "relabelled"} =>
        LabelCases(LossText(c_val) /\ ~ProfitText(c_val))

\* C15 as stated: every text with a swing-to-loss marker gets the
\* swing-to-loss label.
TurnaroundLabelsAsClaimed ==
    c_pc \in {"labelled", "relabelled"} => LabelCases(LossText(c_val))

TurnaroundWitness ==
    /\ c_pc = "relabelled"
    /\ c_val = <<" ", "jeok", "jeon">>
    /\ c_label = LABEL_LOSS
    /\ c_label2 = LABEL_LOSS

(***************************************************************************)
(* The normalizer: normalize_earnings_table.                               *)
(*   beop in se bi yong cha gam jeon gye sok sa eop i ik                   *)
(*                            the Pre-tax Income metric                    *)
(*   dang hae sil jeok        the Current-period scope                     *)
(*   nu gye sil jeok          the Cumulative-period scope                  *)
(*   jeon gi sil jeok         the prior-period column label (not a scope)  *)
(*   gu bun                   "item", the header of the first column       *)
(***************************************************************************)
MaxNormRows == 2   \* rows of the table given to the normalizer

KW_PRETAX ==
    <<"beop", "in", "se", "bi", "yong", "cha", "gam", "jeon", "gye", "sok",
      "sa", "eop", "i", "ik">>
SCOPE_CURRENT == <<"dang", "hae", "sil", "jeok">>
SCOPE_CUMULATIVE == <<"nu", "gye", "sil", "jeok">>

METRIC_ORDER == <<KW_REVENUE, KW_OPERATING, KW_PRETAX, KW_NET>>
SCOPE_ORDER == <<SCOPE_CURRENT, SCOPE_CUMULATIVE>>

\* Cells of the tables.
T_PRIOR == <<"jeon", "gi", "sil", "jeok">>
T_ITEM == <<"gu", "bun">>
T_REVENUE_CURRENT == KW_REVENUE \o <<"(">> \o KW_DANGHAE \o <<")">>
N_1000 == <<"1", ",", "0", "0", "0">>
N_800 == <<"8", "0", "0">>
N_900 == <<"9", "0", "0">>
N_25_0 == <<"2", "5", ".", "0">>
N_11_1 == <<"1", "1", ".", "1">>
N_MINUS_3_5 == <<"-", "3", ".", "5">>
DASH == <<"-">>

\* The row of the spec's end-to-end scenario.
EX_ROW == <<KW_REVENUE, SCOPE_CURRENT, N_1000, N_800, N_25_0, DASH, N_900, N_11_1, DASH>>

\* Rows of a preliminary-earnings table, nine cells each.
NormRowList ==
    << EX_ROW,
       <<KW_REVENUE, SCOPE_CUMULATIVE, EX_1234, EX_500, EX_12_5, LABEL_PROFIT, NA, DASH,
         <<"jeok", "jeon">> >>,
       <<KW_OPERATING, SCOPE_CURRENT, EX_500, N_800, DASH, <<"jeok", "ja", " ">>, N_900,
         <<"x">>, NA>>,
       <<KW_PRETAX, SCOPE_CURRENT, N_800, N_900, N_MINUS_3_5, DASH, N_1000, N_11_1, DASH>>,
       <<KW_NET, SCOPE_CURRENT, N_900, EX_500, DASH, <<"heuk", "jeon">>, NA, N_25_0, DASH>>,
       <<KW_NET, T_PRIOR, N_900, N_800, N_11_1, DASH, N_800, N_11_1, DASH>>,
       <<T_ITEM, SCOPE_CURRENT, N_1000, N_800, N_25_0, DASH, N_900, N_11_1, DASH>>,
       <<T_REVENUE_CURRENT, NA, N_800, N_1000, N_MINUS_3_5, DASH, N_900, N_11_1, DASH>> >>

NormRows == {NormRowList[i] : i \in 1..Len(NormRowList)}

\* The numbers of columns of a table: no value column, one, the turnaround
\* column of the period, all nine.
NormCols == {2, 3, 6, 9}

\* A DataFrame: every row has one cell per column.
NormTables ==
    UNION {{[ncols |-> nc, rows |-> [i \in 1..k |-> SubSeq(f[i], 1, nc)]] :
                f \in [1..k -> NormRows], nc \in NormCols} : k \in 0..MaxNormRows}

\* row_vals[k] of the code: Python counts the cells from 0.
CellAt(row_vals, k) == row_vals[k + 1]

\* Lines 472-475: the first metric of METRIC_ORDER found in col0, 0 if none.
RECURSIVE FirstMetric(_, _)
FirstMetric(col0, i) ==
    IF i > Len(METRIC_ORDER) THEN 0
    ELSE IF IsSubstring(METRIC_ORDER[i], col0) THEN i
    ELSE FirstMetric(col0, i + 1)

\* Lines 483-487: the scope, None if neither label is found.
ScopeOfSecondCell(col0, col1) ==
    IF IsSubstring(KW_DANGHAE, col1) THEN Some(SCOPE_CURRENT)
    ELSE IF IsSubstring(KW_NUGYE, col1) THEN Some(SCOPE_CUMULATIVE)
    ELSE None

ScopeOf(col0, col1) ==
    IF IsSubstring(KW_DANGHAE, col1) \/ IsSubstring(KW_DANGHAE, col0) THEN Some(SCOPE_CURRENT)
    ELSE IF IsSubstring(KW_NUGYE, col1) \/ IsSubstring(KW_NUGYE, col0) THEN Some(SCOPE_CUMULATIVE)
    ELSE None

NumAtShifted(row_vals, k) == IF Len(row_vals) > k THEN clean_numeric(row_vals[k]) ELSE None

NumAt(row_vals, k) == IF Len(row_vals) > k THEN clean_numeric(CellAt(row_vals, k)) ELSE None

LabelAt(row_vals, k) ==
    IF Len(row_vals) > k THEN standardize_turnaround(CellAt(row_vals, k)) ELSE LABEL_NONE

\* The body of the row loop (lines 463-512): None when the row is skipped,
\* the record otherwise.
RowRecordOf(row_vals, f) ==
    IF Len(row_vals) < 3 THEN None
    ELSE LET col0 == IF ~IsNA(CellAt(row_vals, 0)) THEN Strip(CellAt(row_vals, 0)) ELSE <<>>
             m == FirstMetric(col0, 1)
             col1 == IF Len(row_vals) > 1 /\ ~IsNA(CellAt(row_vals, 1))
                     THEN Strip(CellAt(row_vals, 1)) ELSE <<>>
             scope == ScopeOf(col0, col1)
         IN  IF m = 0 \/ scope = None THEN None
             ELSE Some([corp_name |-> f, stock_code |-> f, rcp_no |-> f,
                        report_date |-> "search_date",
                        metric |-> METRIC_ORDER[m],
                        scope |-> scope[1],
                        value_current |-> NumAt(row_vals, 2),
                        value_prev |-> NumAt(row_vals, 3),
                        qoq_change_pct |-> NumAt(row_vals, 4),
                        qoq_turnaround |-> LabelAt(row_vals, 5),
                        value_yoy |-> NumAt(row_vals, 6),
                        yoy_change_pct |-> NumAt(row_vals, 7),
                        yoy_turnaround |-> LabelAt(row_vals, 8),
                        unit_value |-> "KRW_million",
                        unit_pct |-> "percent"])

\* Lines 524-525: the position in the order list, 99 for a stranger.
OrderIndex(order, x) ==
    IF \E i \in 1..Len(order) : order[i] = x
    THEN (CHOOSE i \in 1..Len(order) : order[i] = x) - 1
    ELSE 99

m_order(r) == OrderIndex(METRIC_ORDER, r.metric)
s_order(r) == OrderIndex(SCOPE_ORDER, r.scope)

\* sort_values(['m_order', 's_order']): the first column is the major key.
ComesBeforeScopeFirst(a, b) ==
    s_order(a) < s_order(b) \/ (s_order(a) = s_order(b) /\ m_order(a) < m_order(b))

ComesBefore(a, b) ==
    m_order(a) < m_order(b) \/ (m_order(a) = m_order(b) /\ s_order(a) < s_order(b))

\* The sort on several columns is a lexsort, which keeps rows of equal keys
\* in their order: r goes in front of the first row it comes before.
InsertSorted(sorted, r) ==
    LET later == {i \in 1..Len(sorted) : ComesBefore(r, sorted[i])}
        at == IF later = {} THEN Len(sorted) + 1
              ELSE CHOOSE i \in later : \A j \in later : i <= j
    IN  SubSeq(sorted, 1, at - 1) \o <<r>> \o SubSeq(sorted, at, Len(sorted))

RECURSIVE SortValues(_)
SortValues(rows) ==
    IF rows = <<>> THEN <<>>
    ELSE InsertSorted(SortValues(SubSeq(rows, 1, Len(rows) - 1)), rows[Len(rows)])

\* Lines 518-521: the columns of df_wide.
WideColumns(r) ==
    [metric |-> r.metric, scope |-> r.scope,
     value_current |-> r.value_current, value_prev |-> r.value_prev,
     value_yoy |-> r.value_yoy,
     qoq_change_pct |-> r.qoq_change_pct, yoy_change_pct |-> r.yoy_change_pct,
     qoq_turnaround |-> r.qoq_turnaround, yoy_turnaround |-> r.yoy_turnaround]

WideSummary(long) == SortValues([k \in 1..Len(long) |-> WideColumns(long[k])])

\* Line 460: the list of records a call starts with.
FreshRowsCarry(prev) == prev

FreshRows(prev) == <<>>

InitNorm ==
    /\ n_pc = "rows"
    /\ n_df \in NormTables
    /\ filer \in AcptNos
    /\ n_idx = 1
    /\ normalized_rows = <<>>
    /\ row_of = <<>>
    /\ df_long = <<>>
    /\ df_wide = <<>>
    /\ msg = <<>>
    /\ n_call = 1
    /\ long_first = <<>>
    /\ df_at_call = n_df
    /\ IdleLister /\ IdleFetcher /\ IdleExtract /\ IdleMain /\ IdleCell /\ IdleSend /\ IdleRest

\* One iteration of `for idx, row in df.iterrows()` (lines 462-512).
NormalizeRow ==
    /\ n_pc = "rows"
    /\ n_idx <= Len(n_df.rows)
    /\ LET rec == RowRecordOf(n_df.rows[n_idx], filer)
       IN  /\ normalized_rows' = normalized_rows \o rec
           /\ row_of' = IF rec = None THEN row_of ELSE Append(row_of, n_idx)
    /\ n_idx' = n_idx + 1
    /\ UNCHANGED <<n_pc, n_df, filer, df_long, df_wide, msg, n_call, long_first, df_at_call,
                   listerVars, fetcherVars, extractVars, mainVars, cellVars, sendVars, restVars>>

\* Lines 514-530, and lines 457-458 for a table without rows: the two
\* frames are built and returned.
BuildFrames ==
    /\ n_pc = "rows"
    /\ n_idx > Len(n_df.rows)
    /\ df_long' = normalized_rows
    /\ df_wide' = WideSummary(normalized_rows)
    /\ long_first' = IF n_call = 1 THEN normalized_rows ELSE long_first
    /\ n_pc' = "returned"
    /\ UNCHANGED <<n_df, filer, n_idx, normalized_rows, row_of, msg, n_call, df_at_call,
                   listerVars, fetcherVars, extractVars, mainVars, cellVars, sendVars, restVars>>

\* normalize_earnings_table is called once more with the same arguments.
CallAgain ==
    /\ n_pc = "returned"
    /\ n_call = 1
    /\ n_call' = 2
    /\ n_idx' = 1
    /\ normalized_rows' = FreshRows(normalized_rows)
    /\ row_of' = <<>>
    /\ df_long' = <<>>
    /\ df_wide' = <<>>
    /\ n_pc' = "rows"
    /\ UNCHANGED <<n_df, filer, msg, long_first, df_at_call,
                   listerVars, fetcherVars, extractVars, mainVars, cellVars, sendVars, restVars>>

(***************************************************************************)
(* format_telegram_message. A line of the message is a record: the unit    *)
(* line, the header line, a metric line or the URL line.                   *)
(***************************************************************************)
HEADLINE == <<KW_REVENUE, KW_OPERATING, KW_NET>>

\* Fixed-point formatting with d decimals (d is 0 or 1): the sign and the
\* number of units of the last decimal, rounded half to even. The cells of
\* NormRowList have at most one decimal, so that every tie is exact.
Rounded(v, d) ==
    IF v.scale <= d
    THEN [neg |-> v.neg, units |-> v.mant * Pow10(d - v.scale)]
    ELSE LET p == Pow10(v.scale - d)
             q == v.mant \div p
             r == v.mant % p
         IN  [neg |-> v.neg,
              units |-> IF 2 * r > p \/ (2 * r = p /\ q % 2 = 1) THEN q + 1 ELSE q]

\* f"{x:,.0f}" if pd.notna(x) else "-", and the same with "+.1f".
Fmt(x, d) == IF x = None THEN <<"-">> ELSE <<Rounded(x[1], d)>>

\* Line 605: the rows of df_cur.
IsCurrentAny(r) == TRUE

IsCurrent(r) == r.scope = SCOPE_CURRENT

MetricLine(r) ==
    [kind |-> "metric", key |-> r.metric,
     vals |-> <<Fmt(r.value_current, 0), Fmt(r.value_prev, 0), Fmt(r.value_yoy, 0),
                Fmt(r.qoq_change_pct, 1), Fmt(r.yoy_change_pct, 1)>>]

\* Lines 607-619 for one metric: no line, or the line of row.iloc[0].
LinesOf(metric, long) ==
    LET row == SelectSeq(long, LAMBDA r : IsCurrent(r) /\ r.metric = metric)
    IN  IF row = <<>> THEN <<>> ELSE <<MetricLine(row[1])>>

format_telegram_message(stock_code, corp_name, long, acptno) ==
    << [kind |-> "unit", key |-> <<>>, vals |-> <<>>],
       [kind |-> "header", key |-> <<stock_code, corp_name>>, vals |-> <<>>] >>
    \o LinesOf(HEADLINE[1], long) \o LinesOf(HEADLINE[2], long) \o LinesOf(HEADLINE[3], long)
    \o << [kind |-> "url", key |-> <<acptno>>, vals |-> <<>>] >>

\* main, lines 748-754: the message of a filer with records.
FormatMessage ==
    /\ n_pc = "returned"
    /\ df_long # <<>>
    /\ msg' = format_telegram_message(filer, filer, df_long, filer)
    /\ n_pc' = "formatted"
    /\ UNCHANGED <<n_df, filer, n_idx, normalized_rows, row_of, df_long, df_wide, n_call,
                   long_first, df_at_call,
                   listerVars, fetcherVars, extractVars, mainVars, cellVars, sendVars, restVars>>

NextNorm == NormalizeRow \/ BuildFrames \/ CallAgain \/ FormatMessage

SpecNorm == InitNorm /\ [][NextNorm]_vars

(***************************************************************************)
(* Claims about the normalizer and the message.                            *)
(***************************************************************************)
Returned == n_pc \in {"returned", "formatted"}

\* C11: the long records of one call hold no two records with the same
\* (metric, scope) pair.
MetricScopeUnique ==
    Returned =>
        \A i, j \in 1..Len(df_long) :
            i # j => <<df_long[i].metric, df_long[i].scope>>
                        # <<df_long[j].metric, df_long[j].scope>>

Metrics == {METRIC_ORDER[i] : i \in 1..Len(METRIC_ORDER)}
Scopes == {SCOPE_ORDER[i] : i \in 1..Len(SCOPE_ORDER)}

Text(cell) == IF IsNA(cell) THEN <<>> ELSE cell

\* The row names a known metric in its first cell.
MatchesMetric(row) == \E m \in Metrics : IsSubstring(m, Text(row[1]))

\* The row names a known scope in its first or its second cell.
MatchesScope(row) ==
    \E kw \in {KW_DANGHAE, KW_NUGYE} :
        IsSubstring(kw, Text(row[1])) \/ IsSubstring(kw, Text(row[2]))

RowsWithRecord == {row_of[k] : k \in 1..Len(row_of)}

\* The drop rule, for the rows that (eligible) is true of.
DropRuleFor(eligible(_)) ==
    Returned =>
        /\ \A i \in 1..Len(n_df.rows) :
              i \in RowsWithRecord <=>
                  (eligible(n_df.rows[i]) /\ MatchesMetric(n_df.rows[i])
                                          /\ MatchesScope(n_df.rows[i]))
        /\ \A k \in 1..Len(df_long) :
              df_long[k].metric \in Metrics /\ df_long[k].scope \in Scopes
        /\ Len(df_long) <= Len(n_df.rows)
        /\ Len(df_long) = Len(row_of)

HasValueCell(row) == Len(row) >= 3

AnyRow(row) == TRUE

\* C12: a row yields a long record if and only if it has at least three
\* cells, names a known metric in its first cell and a known scope in its
\* first or second cell; every other row is dropped without error; every
\* record has its metric in the four-metric set and its scope in the two-scope
\* set, and there are never more records than rows.
DropRule == DropRuleFor(HasValueCell)

\* C12 as stated: every row that names a metric and a scope yields a record.
DropRuleAsClaimed == DropRuleFor(AnyRow)

DropRuleWitness ==
    /\ Returned
    /\ n_df.ncols = 9
    /\ Len(n_df.rows) = 2
    /\ RowsWithRecord = {2}
    /\ MatchesMetric(n_df.rows[1]) /\ ~MatchesScope(n_df.rows[1])

\* C13: the fields of a record come from fixed offsets of its own row:
\* offset 2 is value_current, 3 value_prev, 4 the period-over-period percent,
\* 5 its turnaround label, 6 value_yoy, 7 the year-over-year percent, 8 its
\* turnaround label; the row of the end-to-end scenario yields exactly one
\* record: Revenue, Current-period, 1000.0, 800.0, 25.0, 900.0, 11.1.
PositionalMapping ==
    /\ \A k \in 1..Len(normalized_rows) :
        LET row == n_df.rows[row_of[k]]
            rec == normalized_rows[k]
            num(o) == IF Len(row) >= o + 1 THEN clean_numeric(row[o + 1]) ELSE None
            label(o) == IF Len(row) >= o + 1 THEN standardize_turnaround(row[o + 1])
                        ELSE LABEL_NONE
        IN  /\ rec.value_current = num(2)
            /\ rec.value_prev = num(3)
            /\ rec.qoq_change_pct = num(4)
            /\ rec.qoq_turnaround = label(5)
            /\ rec.value_yoy = num(6)
            /\ rec.yoy_change_pct = num(7)
            /\ rec.yoy_turnaround = label(8)
    /\ Returned =>
        \A i \in 1..Len(n_df.rows) :
            n_df.rows[i] = EX_ROW =>
                /\ Cardinality({k \in 1..Len(row_of) : row_of[k] = i}) = 1
                /\ \E k \in 1..Len(df_long) :
                    /\ row_of[k] = i
                    /\ df_long[k].metric = KW_REVENUE
                    /\ df_long[k].scope = SCOPE_CURRENT
                    /\ df_long[k].value_current = Some([neg |-> FALSE, mant |-> 1000, scale |-> 0])
                    /\ df_long[k].value_prev = Some([neg |-> FALSE, mant |-> 800, scale |-> 0])
                    /\ df_long[k].qoq_change_pct = Some([neg |-> FALSE, mant |-> 25, scale |-> 0])
                    /\ df_long[k].value_yoy = Some([neg |-> FALSE, mant |-> 900, scale |-> 0])
                    /\ df_long[k].yoy_change_pct = Some([neg |-> FALSE, mant |-> 111, scale |-> 1])

PositionalMappingWitness ==
    /\ Returned
    /\ n_df.rows = <<EX_ROW>>
    /\ Len(df_long) = 1
    /\ df_long[1].value_yoy = Some([neg |-> FALSE, mant |-> 900, scale |-> 0])

WidePosition(k) ==
    LET key(j) == <<m_order(df_long[j]), s_order(df_long[j])>>
        less(a, b) == a[1] < b[1] \/ (a[1] = b[1] /\ a[2] < b[2])
    IN  1 + Cardinality({j \in 1..Len(df_long) : less(key(j), key(k))})
          + Cardinality({j \in 1..k - 1 : key(j) = key(k)})

\* C17: the wide summary has one row per long record, with the record's
\* metric, scope, values, percents and labels unchanged, ordered by metric
\* order, then scope order, records of one (metric, scope) in long order.
WideIsSortedProjection ==
    Returned =>
        /\ Len(df_wide) = Len(df_long)
        /\ \A k \in 1..Len(df_long) :
            LET w == df_wide[WidePosition(k)]
                r == df_long[k]
            IN  /\ w.metric = r.metric /\ w.scope = r.scope
                /\ w.value_current = r.value_current /\ w.value_prev = r.value_prev
                /\ w.value_yoy = r.value_yoy
                /\ w.qoq_change_pct = r.qoq_change_pct
                /\ w.yoy_change_pct = r.yoy_change_pct
                /\ w.qoq_turnaround = r.qoq_turnaround
                /\ w.yoy_turnaround = r.yoy_turnaround

\* The table lists the Cumulative-period Revenue row before the
\* Current-period one.
WideWitness ==
    /\ Returned
    /\ Len(df_long) = 2
    /\ df_long[1].metric = KW_REVENUE /\ df_long[1].scope = SCOPE_CUMULATIVE
    /\ df_long[2].metric = KW_REVENUE /\ df_long[2].scope = SCOPE_CURRENT
    /\ df_wide[1].scope = SCOPE_CURRENT

MetricLines == SubSeq(msg, 3, Len(msg) - 1)

HeadlineIndex(m) == CHOOSE i \in 1..Len(HEADLINE) : HEADLINE[i] = m

CurrentRecords(m) ==
    {k \in 1..Len(df_long) : df_long[k].scope = SCOPE_CURRENT /\ df_long[k].metric = m}

\* C18: the message is the two header lines, then at most one line for each
\* of Revenue, Operating Income and Net Income, in that order, each made of
\* a Current-period record of that metric and present exactly when there is
\* one, then the URL line with the accession number.
MessageContent ==
    n_pc = "formatted" =>
        /\ Len(msg) >= 3
        /\ msg[1].kind = "unit"
        /\ msg[2].kind = "header" /\ msg[2].key = <<filer, filer>>
        /\ msg[Len(msg)].kind = "url" /\ msg[Len(msg)].key = <<filer>>
        /\ \A i \in 1..Len(MetricLines) :
            /\ MetricLines[i].kind = "metric"
            /\ \E h \in 1..Len(HEADLINE) : MetricLines[i].key = HEADLINE[h]
            /\ \E k \in CurrentRecords(MetricLines[i].key) :
                   MetricLines[i] = MetricLine(df_long[k])
        /\ \A i, j \in 1..Len(MetricLines) :
            i < j => HeadlineIndex(MetricLines[i].key) < HeadlineIndex(MetricLines[j].key)
        /\ \A h \in 1..Len(HEADLINE) :
            (CurrentRecords(HEADLINE[h]) # {})
                <=> (\E i \in 1..Len(MetricLines) : MetricLines[i].key = HEADLINE[h])

\* A table with a Cumulative-period Revenue row and a Current-period Net
\* Income row: the message has the Net Income line only.
MessageWitness ==
    /\ n_pc = "formatted"
    /\ Len(df_long) = 2
    /\ df_long[1].metric = KW_REVENUE /\ df_long[1].scope = SCOPE_CUMULATIVE
    /\ df_long[2].metric = KW_NET /\ df_long[2].scope = SCOPE_CURRENT
    /\ Len(msg) = 4
    /\ msg[3].key = KW_NET

(***************************************************************************)
(* send_to_telegram.                                                       *)
(***************************************************************************)
DefaultRetry == 3       \* retry: int = 3
DefaultRetryAfter == 5  \* .get('retry_after', 5)
ShortBackoff == 2       \* time.sleep(2)

RetryArgs == 0..DefaultRetry

\* What the endpoint can answer to one POST: ok, an error body with
\* error_code 429 and its retry_after parameter (0: the parameter is
\* missing), an error body with another code, or no usable answer at all
\* (a transport exception, a body that is not JSON).
Answers ==
    [kind : {"ok", "error", "exception"}, retry_after : {0}]
        \cup [kind : {"429"}, retry_after : {0, 1, 30}]

\* range(retry): the number of iterations of the loop.
AttemptsOneMore(r) == r + 1

Attempts(r) == r

InitSend ==
    /\ s_pc = "start"
    /\ env_set \in BOOLEAN
    /\ retry \in RetryArgs
    /\ attempt = 0
    /\ s_result = <<>>
    /\ posts = <<>>
    /\ slept = <<>>
    /\ IdleLister /\ IdleFetcher /\ IdleExtract /\ IdleMain /\ IdleCell /\ IdleNorm /\ IdleRest

\* Where the loop goes after iteration `attempt`: the next iteration, or the
\* `return False` of line 661.
Continue ==
    IF attempt + 1 < Attempts(retry)
    THEN s_pc' = "attempt" /\ attempt' = attempt + 1 /\ UNCHANGED s_result
    ELSE s_pc' = "done" /\ s_result' = <<FALSE>> /\ UNCHANGED attempt

\* Lines 629-643: the configuration test and the entry of the loop.
StartSend ==
    /\ s_pc = "start"
    /\ IF ~env_set \/ Attempts(retry) = 0
       THEN s_pc' = "done" /\ s_result' = <<FALSE>>
       ELSE s_pc' = "attempt" /\ UNCHANGED s_result
    /\ UNCHANGED <<env_set, retry, attempt, posts, slept,
                   listerVars, fetcherVars, extractVars, mainVars, cellVars, normVars, restVars>>

\* One iteration of the loop (lines 643-659), with the return after the
\* loop (661) when it was the last one.
PostAttempt ==
    /\ s_pc = "attempt"
    /\ \E ans \in Answers :
        /\ posts' = Append(posts, ans)
        /\ CASE ans.kind = "ok" ->
                  /\ s_pc' = "done" /\ s_result' = <<TRUE>>
                  /\ slept' = Append(slept, <<>>)
                  /\ UNCHANGED attempt
             [] ans.kind = "429" ->
                  /\ slept' = Append(slept, <<IF ans.retry_after = 0 THEN DefaultRetryAfter
                                              ELSE ans.retry_after>>)
                  /\ Continue
             [] ans.kind = "error" ->
                  /\ slept' = Append(slept, <<>>)
                  /\ Continue
             [] ans.kind = "exception" ->
                  IF attempt < retry - 1
                  THEN /\ slept' = Append(slept, <<ShortBackoff>>)
                       /\ Continue
                  ELSE /\ slept' = Append(slept, <<>>)
                       /\ s_pc' = "done" /\ s_result' = <<FALSE>>
                       /\ UNCHANGED attempt
    /\ UNCHANGED <<env_set, retry,
                   listerVars, fetcherVars, extractVars, mainVars, cellVars, normVars, restVars>>

NextSend == StartSend \/ PostAttempt

SpecSend == InitSend /\ [][NextSend]_vars

(***************************************************************************)
(* Claims about send_to_telegram.                                          *)
(***************************************************************************)
\* C19: send_to_telegram makes at most `retry` POSTs; it returns true
\* exactly when a POST is answered ok, and that POST is its last; it returns
\* false, without raising, when the attempts are used up, and false without
\* any POST when the bot token or the chat target is missing.
BoundedSend ==
    /\ Len(posts) <= retry
    /\ \A k \in 1..Len(posts) : posts[k].kind = "ok" => k = Len(posts) /\ s_pc = "done"
    /\ s_pc = "done" =>
        /\ s_result \in {<<TRUE>>, <<FALSE>>}
        /\ s_result = <<TRUE>> <=> \E k \in 1..Len(posts) : posts[k].kind = "ok"
        /\ (s_result = <<FALSE>> /\ env_set) => Len(posts) = retry
        /\ ~env_set => (s_result = <<FALSE>> /\ posts = <<>>)
    /\ s_pc # "done" => s_result = <<>>

BoundedSendWitness ==
    /\ s_pc = "done"
    /\ retry = DefaultRetry
    /\ Len(posts) = DefaultRetry
    /\ posts[1].kind = "429" /\ posts[2].kind = "exception" /\ posts[3].kind = "ok"
    /\ s_result = <<TRUE>>

\* C20: a POST that follows a failed POST comes after a wait: the
\* retry_after of the answer after a 429, the short backoff after any other
\* failure.
BackoffBeforeRetry ==
    \A k \in 1..Len(posts) - 1 :
        /\ slept[k] # <<>>
        /\ posts[k].kind = "429" /\ posts[k].retry_after # 0
               => slept[k] = <<posts[k].retry_after>>
        /\ posts[k].kind # "429" => slept[k] = <<ShortBackoff>>
(***************************************************************************)
(* The row loop of search_prelim_earnings_kind, with the fields of the     *)
(* record: the title text, the two onclick attributes and what the two     *)
(* regular expressions take from them.                                     *)
(***************************************************************************)

\* The longest digit run of a company link's onclick in the rows below.
MaxCodeLen == 7

\* The most rows of a page in the field-by-field model.
MaxFieldRows == 2

\* The marker substring of line 202, as its two syllables.
MARKER == <<"jam", "jeong">>

T_PRELIM == <<"yeong", "eop", "jam", "jeong", "sil", "jeok">>
T_SPLIT == <<"jam", "si", "jeong", "ji">>
T_MEETING == <<"ju", "ju", "chong", "hoe">>

\* The JavaScript calls the two regular expressions look for.
FN_VIEWER == "openDisclsViewer"
FN_SUMMARY == "companysummary_open"
FN_OTHER == "fnOther"

\* An onclick attribute `fn('arg', ...)`; get('onclick', '') of an element
\* without the attribute is the empty call.
OnClick(fn, arg) == [fn |-> fn, arg |-> arg]

NoOnClick == OnClick("", <<>>)

\* re.search(r"fn\('(\d+)'", onclick): the digits of the first argument when
\* the call is to fn and the argument is a non-empty run of digits closed by
\* the quote; None otherwise.
SearchCall(fn, onclick) ==
    IF /\ onclick.fn = fn
       /\ Len(onclick.arg) > 0
       /\ \A i \in 1..Len(onclick.arg) : onclick.arg[i] \in DigitChars
    THEN Some(onclick.arg)
    ELSE None

\* str.zfill(width) on a string without a sign: zeros on the left up to width,
\* and the string itself when it is already that long or longer.
ZFill(text, width) ==
    IF Len(text) >= width THEN text
    ELSE [i \in 1..(width - Len(text)) |-> "0"] \o text

\* Arguments of the company link: every length up to MaxCodeLen, starting
\* with a zero, another digit or a letter.
CodeArgs ==
    {[i \in 1..n |-> IF i = 1 THEN c ELSE "5"] : n \in 0..MaxCodeLen, c \in {"0", "5", "x"}}

AcptArgs == {<<"2", "0">>, <<"2", "1">>}

\* cols[1].find('a', id='companysum'): absent, or a link with an onclick.
CompanyElems ==
    {[found |-> FALSE, onclick |-> NoOnClick]}
    \cup {[found |-> TRUE, onclick |-> OnClick(FN_SUMMARY, arg)] : arg \in CodeArgs}
    \cup {[found |-> TRUE, onclick |-> OnClick(FN_OTHER, <<"5", "5", "5", "5", "5", "5">>)]}

GoodRow(arg, company) ==
    [ncols |-> 4, link |-> TRUE, title |-> T_PRELIM,
     onclick |-> OnClick(FN_VIEWER, arg), company |-> company]

\* The rows a page is drawn from: rows that pass every filter, with every
\* company link, and one row for each way of failing a filter.
FieldRows ==
    {GoodRow(arg, company) : arg \in AcptArgs, company \in CompanyElems}
    \cup {[GoodRow(<<"2", "0">>, [found |-> FALSE, onclick |-> NoOnClick]) EXCEPT !.ncols = 3]}
    \cup {[GoodRow(<<"2", "0">>, [found |-> FALSE, onclick |-> NoOnClick]) EXCEPT !.link = FALSE]}
    \cup {[GoodRow(<<"2", "0">>, [found |-> FALSE, onclick |-> NoOnClick]) EXCEPT !.title = t] : t \in {T_SPLIT, T_MEETING}}
    \cup {[GoodRow(<<"2", "0">>, [found |-> FALSE, onclick |-> NoOnClick]) EXCEPT !.onclick = o] :
            o \in {NoOnClick, OnClick(FN_OTHER, <<"2", "0">>), OnClick(FN_VIEWER, <<>>),
                   OnClick(FN_VIEWER, <<"2", "x">>)}}

InitRow ==
    /\ w_pc = "rows"
    /\ w_row \in UNION {[1..n -> FieldRows] : n \in 1..MaxFieldRows}
    /\ w_record = <<>>
    /\ IdleLister /\ IdleFetcher /\ IdleExtract /\ IdleMain /\ IdleCell /\ IdleNorm /\ IdleSend
    /\ IdleCap /\ IdleDash /\ IdleCache /\ IdleMon /\ IdleRace

\* Lines 217-240: the record of a row that passed the filters.
FieldRecord(row, acptno) ==
    LET company_elem == row.company
        corp_onclick == IF company_elem.found THEN company_elem.onclick ELSE NoOnClick
        code_match == SearchCall(FN_SUMMARY, corp_onclick)
    IN  [stock_code |-> IF code_match # None THEN ZFill(code_match[1], 6) ELSE <<>>,
         corp_name |-> IF company_elem.found THEN "companysum" ELSE "",
         title |-> row.title,
         acptno |-> acptno]

\* Lines 190-215: the filters, in the order of the code.
Skipped(row, ds) ==
    \/ row.ncols < 4
    \/ ~row.link
    \/ ~IsSubstring(MARKER, row.title)
    \/ SearchCall(FN_VIEWER, row.onclick) = None
    \/ /\ SearchCall(FN_VIEWER, row.onclick) # None
       /\ \E j \in 1..Len(ds) :
             ds[j].acptno = SearchCall(FN_VIEWER, row.onclick)[1]

\* One turn of `for row in rows`, on a row the filters skip.
SkipRow ==
    /\ w_pc = "rows"
    /\ w_row # <<>>
    /\ Skipped(Head(w_row), w_record)
    /\ w_row' = Tail(w_row)
    /\ UNCHANGED <<w_pc, w_record>>
    /\ UNCHANGED <<listerVars, fetcherVars, extractVars, mainVars, cellVars, normVars, sendVars>>
    /\ UNCHANGED <<capVars, dashVars, cacheVars, monVars, raceVars>>

\* One turn of `for row in rows`, on a row that is appended.
AppendRow ==
    /\ w_pc = "rows"
    /\ w_row # <<>>
    /\ ~Skipped(Head(w_row), w_record)
    /\ w_record' = Append(w_record,
                          FieldRecord(Head(w_row), SearchCall(FN_VIEWER, Head(w_row).onclick)[1]))
    /\ w_row' = Tail(w_row)
    /\ UNCHANGED w_pc
    /\ UNCHANGED <<listerVars, fetcherVars, extractVars, mainVars, cellVars, normVars, sendVars>>
    /\ UNCHANGED <<capVars, dashVars, cacheVars, monVars, raceVars>>

\* The loop is over: the page had fewer than PAGE_SIZE rows.
RowsDone ==
    /\ w_pc = "rows"
    /\ w_row = <<>>
    /\ w_pc' = "done"
    /\ UNCHANGED <<w_row, w_record>>
    /\ UNCHANGED <<listerVars, fetcherVars, extractVars, mainVars, cellVars, normVars, sendVars>>
    /\ UNCHANGED <<capVars, dashVars, cacheVars, monVars, raceVars>>

NextRow == SkipRow \/ AppendRow \/ RowsDone

SpecRow == InitRow /\ [][NextRow]_vars

\* C26: every record of the lister has the marker in its title, a non-empty
\* all-digit acptno, and a stock_code that is empty or exactly 6 characters.
RecordFields ==
    \A j \in 1..Len(w_record) :
        /\ IsSubstring(MARKER, w_record[j].title)
        /\ Len(w_record[j].acptno) > 0
        /\ \A i \in 1..Len(w_record[j].acptno) : w_record[j].acptno[i] \in DigitChars
        /\ Len(w_record[j].stock_code) \in {0, 6}
(***************************************************************************)
(* The senders of the repository, on the length of the text they POST:     *)
(* send_to_telegram of the disclosure pipeline, send_news_to_telegram of   *)
(* the news script, send_to_telegram of the call summarizer and            *)
(* send_telegram of the two dashboard pages.                               *)
(***************************************************************************)

\* message[:4096] of the call summarizer and of the pages.
CHAT_LIMIT == 4096

\* len(message) > 4000 and message[:4000] of the news script.
NEWS_CUT == 4000

\* len("\n...")
ELLIPSIS_LEN == 4

SENDER_PIPELINE == "scripts/2_DART_Prelim_Earnings.send_to_telegram"
SENDER_NEWS == "scripts/1_News_to_Telegram.send_news_to_telegram"
SENDER_CALL == "scripts/4_Earnings_Call_Summarizer.send_to_telegram"
SENDER_FEEDBACK == "pages/7.send_telegram"
SENDER_NEWS_PAGE == "pages/1.send_telegram"

Senders == {SENDER_PIPELINE, SENDER_NEWS, SENDER_CALL, SENDER_FEEDBACK, SENDER_NEWS_PAGE}

\* len(message) of the formatted message: short, around the two cuts, long.
MessageLengths ==
    {0, 1, NEWS_CUT - 1, NEWS_CUT, NEWS_CUT + 1, CHAT_LIMIT - 1, CHAT_LIMIT, CHAT_LIMIT + 1,
     2 * CHAT_LIMIT}

\* len(message[:n])
SliceLen(len, n) == Min(len, n)

InitCap ==
    /\ k_pc = "send"
    /\ k_sender \in Senders
    /\ k_message \in MessageLengths
    /\ k_posted = <<>>
    /\ IdleLister /\ IdleFetcher /\ IdleExtract /\ IdleMain /\ IdleCell /\ IdleNorm /\ IdleSend
    /\ IdleRow /\ IdleDash /\ IdleCache /\ IdleMon /\ IdleRace

\* Lines 637-643 of the pipeline: the payload carries `message` as it is, and
\* every turn of the retry loop POSTs the same payload.
PostPipeline ==
    /\ k_sender = SENDER_PIPELINE
    /\ k_pc \in {"send", "retry"}
    /\ Len(k_posted) < DefaultRetry
    /\ k_posted' = Append(k_posted, k_message)
    /\ \E ok \in BOOLEAN :
          k_pc' = IF ok \/ Len(k_posted') = DefaultRetry THEN "done" ELSE "retry"
    /\ UNCHANGED <<k_sender, k_message>>
    /\ UNCHANGED <<listerVars, fetcherVars, extractVars, mainVars, cellVars, normVars, sendVars>>
    /\ UNCHANGED <<rowVars, dashVars, cacheVars, monVars, raceVars>>

\* Lines 479-482 of the news script: the cut and the ellipsis, then one POST
\* of the message as it is (line 416).
PostNews ==
    /\ k_sender = SENDER_NEWS
    /\ k_pc = "send"
    /\ k_message' = IF k_message > NEWS_CUT
                    THEN SliceLen(k_message, NEWS_CUT) + ELLIPSIS_LEN
                    ELSE k_message
    /\ k_posted' = Append(k_posted, k_message')
    /\ k_pc' = "done"
    /\ UNCHANGED k_sender
    /\ UNCHANGED <<listerVars, fetcherVars, extractVars, mainVars, cellVars, normVars, sendVars>>
    /\ UNCHANGED <<rowVars, dashVars, cacheVars, monVars, raceVars>>

\* Lines 333-340 of the call summarizer: the Markdown POST of message[:4096];
\* any status but 200 leads to the plain-text POST.
PostCall ==
    /\ k_sender = SENDER_CALL
    /\ k_pc = "send"
    /\ k_posted' = Append(k_posted, SliceLen(k_message, CHAT_LIMIT))
    /\ \E status_200 \in BOOLEAN :
          k_pc' = IF status_200 THEN "done" ELSE "retry"
    /\ UNCHANGED <<k_sender, k_message>>
    /\ UNCHANGED <<listerVars, fetcherVars, extractVars, mainVars, cellVars, normVars, sendVars>>
    /\ UNCHANGED <<rowVars, dashVars, cacheVars, monVars, raceVars>>

\* Lines 343-351 of the call summarizer: the plain-text POST.
PostCallPlain ==
    /\ k_sender = SENDER_CALL
    /\ k_pc = "retry"
    /\ k_posted' = Append(k_posted, SliceLen(k_message, CHAT_LIMIT))
    /\ k_pc' = "done"
    /\ UNCHANGED <<k_sender, k_message>>
    /\ UNCHANGED <<listerVars, fetcherVars, extractVars, mainVars, cellVars, normVars, sendVars>>
    /\ UNCHANGED <<rowVars, dashVars, cacheVars, monVars, raceVars>>

\* send_telegram of the two pages: one POST of message[:4096].
PostPage ==
    /\ k_sender \in {SENDER_FEEDBACK, SENDER_NEWS_PAGE}
    /\ k_pc = "send"
    /\ k_posted' = Append(k_posted, SliceLen(k_message, CHAT_LIMIT))
    /\ k_pc' = "done"
    /\ UNCHANGED <<k_sender, k_message>>
    /\ UNCHANGED <<listerVars, fetcherVars, extractVars, mainVars, cellVars, normVars, sendVars>>
    /\ UNCHANGED <<rowVars, dashVars, cacheVars, monVars, raceVars>>

NextCap == PostPipeline \/ PostNews \/ PostCall \/ PostCallPlain \/ PostPage

SpecCap == InitCap /\ [][NextCap]_vars

\* C23: the text of every POST to the chat endpoint is at most the
\* 4096-character limit, for every sender and every message length.
MessageCap ==
    \A i \in 1..Len(k_posted) : k_posted[i] <= CHAT_LIMIT
(***************************************************************************)
(* collect_all_earnings of scripts/3_Global_Earnings.py and its cache      *)
(* file, over several runs and a wall clock in hours.                      *)
(***************************************************************************)

CACHE_EXPIRY_HOURS == 24

\* The clock advances in steps of TickHours, up to MaxClock hours.
TickHours == 6

MaxClock == 48

\* The tickers of TICKER_GROUPS, after normalize_ticker.
Tickers == {"NVDA", "TSM"}

\* {'data': {}, 'updated': None}: load_cache without a readable file.
EmptyCache == [updated |-> None, data |-> [t \in Tickers |-> None]]

load_cache(file) == file

\* The dictionary get_earnings_data returns, with the hour of the fetch.
get_earnings_data(ticker, hour) == [ticker |-> ticker, fetched |-> hour]

\* is_cache_valid: an `updated` stamp less than CACHE_EXPIRY_HOURS old.
is_cache_valid(cache, hour) ==
    /\ cache.updated # None
    /\ hour - cache.updated[1] < CACHE_EXPIRY_HOURS

\* get_cached_data: None, or Some(data) of the ticker.
get_cached_data(ticker, cache, hour) ==
    IF ~is_cache_valid(cache, hour) THEN None ELSE cache.data[ticker]

\* The ticker loop of collect_all_earnings, for one ticker: what it appends
\* to all_data, with whether it came from the cache.
Collected(ticker, cache, use_cache, hour) ==
    LET cached == IF use_cache THEN get_cached_data(ticker, cache, hour) ELSE None
    IN  IF cached # None
        THEN [from_cache |-> TRUE, data |-> cached[1], at |-> hour]
        ELSE [from_cache |-> FALSE, data |-> get_earnings_data(ticker, hour), at |-> hour]

\* save_cache after the loop: every ticker's data, and `updated` set to now.
save_cache(collected, hour) ==
    [updated |-> Some(hour), data |-> [t \in Tickers |-> Some(collected[t].data)]]

InitCache ==
    /\ h_clock = 0
    /\ h_cache = EmptyCache
    /\ h_returned = <<>>
    /\ h_runs = <<>>
    /\ IdleLister /\ IdleFetcher /\ IdleExtract /\ IdleMain /\ IdleCell /\ IdleNorm /\ IdleSend
    /\ IdleRow /\ IdleCap /\ IdleDash /\ IdleMon /\ IdleRace

\* Time passes between two runs.
TickCache ==
    /\ h_clock + TickHours <= MaxClock
    /\ h_clock' = h_clock + TickHours
    /\ UNCHANGED <<h_cache, h_returned, h_runs>>
    /\ UNCHANGED <<listerVars, fetcherVars, extractVars, mainVars, cellVars, normVars, sendVars>>
    /\ UNCHANGED <<rowVars, capVars, dashVars, monVars, raceVars>>

\* One run of collect_all_earnings(use_cache).
collect_all_earnings ==
    \E use_cache \in BOOLEAN :
        LET cache == IF use_cache THEN load_cache(h_cache) ELSE EmptyCache
            collected == [t \in Tickers |-> Collected(t, cache, use_cache, h_clock)]
        IN  /\ h_returned' = collected
            /\ h_cache' = save_cache(collected, h_clock)
            /\ h_runs' = Some(h_clock)
            /\ UNCHANGED h_clock
            /\ UNCHANGED <<listerVars, fetcherVars, extractVars, mainVars, cellVars, normVars,
                           sendVars>>
            /\ UNCHANGED <<rowVars, capVars, dashVars, monVars, raceVars>>

NextCache == TickCache \/ collect_all_earnings

SpecCache == InitCache /\ [][NextCache]_vars

\* C29: data a run returns from the cache was fetched less than
\* CACHE_EXPIRY_HOURS before that run.
CacheFresh ==
    h_returned # <<>> =>
        \A t \in Tickers :
            h_returned[t].from_cache =>
                h_returned[t].at - h_returned[t].data.fetched < CACHE_EXPIRY_HOURS
(***************************************************************************)
(* extract_earnings_table of the dashboard page pages/2 (DART), beside the *)
(* script's extract_earnings_table, on the same html_content.              *)
(***************************************************************************)

\* The most tables of a document given to both extractors.
MaxBothTables == 2

\* The tables of those documents: revenue and the three period labels, in a
\* well-sized and in an empty shape.
BothTables ==
    {[text |-> t, nrows |-> sh[1], ncols |-> sh[2]] :
        t \in SUBSET {KW_REVENUE,
                      KW_DANGHAE \o <<"sil", "jeok">>,
                      KW_JEONGI \o <<"sil", "jeok">>,
                      KW_JEONNYEON \o <<"sil", "jeok">>},
        sh \in {<<0, 3>>, <<3, 3>>}}

\* Both functions are called with the same html_content.
InitBoth ==
    /\ e_pc = "parse"
    /\ html_content \in Documents(BothTables, MaxBothTables)
    /\ tables = <<>>
    /\ e_i = 0
    /\ score = 0
    /\ best_score = 0
    /\ best_table = <<>>
    /\ best_idx = 0
    /\ e_result = <<>>
    /\ g_pc = "parse"
    /\ g_tables = <<>>
    /\ g_i = 0
    /\ g_best_score = 0
    /\ g_best_table = <<>>
    /\ g_best_idx = 0
    /\ g_result = <<>>
    /\ IdleLister /\ IdleFetcher /\ IdleMain /\ IdleCell /\ IdleNorm /\ IdleSend
    /\ IdleRow /\ IdleCap /\ IdleCache /\ IdleMon /\ IdleRace

\* Lines 193-202 of the page: the score of one table.
DashScore(df) ==
    (IF InText(KW_REVENUE, df) THEN 10 ELSE 0)
    + (IF InText(KW_OPERATING, df) THEN 10 ELSE 0)
    + (IF InText(KW_NET, df) THEN 10 ELSE 0)
    + (IF InText(KW_DANGGI, df) \/ InText(KW_DANGHAE, df) THEN 5 ELSE 0)
    + (IF 3 <= df.nrows /\ df.nrows <= 30 /\ 3 <= df.ncols /\ df.ncols <= 15 THEN 5 ELSE 0)

\* Lines 175-186 of the page: the early returns, pd.read_html, the initial
\* best.
DashParse ==
    /\ g_pc = "parse"
    /\ IF html_content.kind \in {"none", "empty", "unparsable"} \/ html_content.tables = <<>>
       THEN /\ g_pc' = "done"
            /\ g_result' = <<>>
            /\ UNCHANGED <<g_tables, g_i, g_best_score, g_best_table, g_best_idx>>
       ELSE /\ g_tables' = html_content.tables
            /\ g_i' = 1
            /\ g_best_score' = 0
            /\ g_best_table' = <<>>
            /\ g_best_idx' = 0
            /\ g_pc' = "loop"
            /\ UNCHANGED g_result
    /\ UNCHANGED <<listerVars, fetcherVars, extractVars, mainVars, cellVars, normVars, sendVars>>
    /\ UNCHANGED <<rowVars, capVars, cacheVars, monVars, raceVars>>

\* Lines 188-207 of the page: one iteration of `for df in tables`.
DashScoreNext ==
    /\ g_pc = "loop"
    /\ g_i <= Len(g_tables)
    /\ LET df == g_tables[g_i]
       IN  IF IsEmpty(df)
           THEN UNCHANGED <<g_best_score, g_best_table, g_best_idx>>
           ELSE IF DashScore(df) > g_best_score
                THEN /\ g_best_score' = DashScore(df)
                     /\ g_best_table' = <<df>>
                     /\ g_best_idx' = g_i
                ELSE UNCHANGED <<g_best_score, g_best_table, g_best_idx>>
    /\ g_i' = g_i + 1
    /\ UNCHANGED <<g_pc, g_tables, g_result>>
    /\ UNCHANGED <<listerVars, fetcherVars, extractVars, mainVars, cellVars, normVars, sendVars>>
    /\ UNCHANGED <<rowVars, capVars, cacheVars, monVars, raceVars>>

\* Line 209 of the page: return best_table.
DashReturn ==
    /\ g_pc = "loop"
    /\ g_i > Len(g_tables)
    /\ g_pc' = "done"
    /\ g_result' = g_best_table
    /\ UNCHANGED <<g_tables, g_i, g_best_score, g_best_table, g_best_idx>>
    /\ UNCHANGED <<listerVars, fetcherVars, extractVars, mainVars, cellVars, normVars, sendVars>>
    /\ UNCHANGED <<rowVars, capVars, cacheVars, monVars, raceVars>>

NextBoth == ParseTables \/ ScoreNext \/ ReturnBest \/ DashParse \/ DashScoreNext \/ DashReturn

SpecBoth == InitBoth /\ [][NextBoth]_vars

\* C30: on every document the two extractors return the same table, or both
\* return None.
ExtractorsAgree ==
    (e_pc = "done" /\ g_pc = "done") => e_result = g_result
(***************************************************************************)
(* One or two monitor processes on one ledger file: the cycles of          *)
(* main(send_telegram=True, only_new=True), with add_to_sent_log as the    *)
(* two steps it is made of, load_sent_log and save_sent_log.               *)
(***************************************************************************)

\* The most sends that return True for one acptno; the send is not taken
\* beyond it.
MaxSends == 2

Procs(n) == 1..n

\* The listing of the day, in document order: every acptno.
RaceListing == [i \in 1..NumIds |-> i]

RECURSIVE Unsent(_, _)
\* Line 704: the rows of the listing whose acptno is not in sent_log.
Unsent(listing, sent) ==
    IF listing = <<>> THEN <<>>
    ELSE IF Head(listing) \in sent
         THEN Unsent(Tail(listing), sent)
         ELSE <<Head(listing)>> \o Unsent(Tail(listing), sent)

WriteBackOnly(read, acptno) == {acptno}

\* Lines 125-126: sent_set.add(acptno); save_sent_log(sent_set).
WriteBack(read, acptno) == read \cup {acptno}

InitRace ==
    /\ r_n \in {1, 2}
    /\ r_pc = [p \in Procs(r_n) |-> "load"]
    /\ r_file = {}
    /\ r_sent_log = [p \in Procs(r_n) |-> {}]
    /\ r_queue = [p \in Procs(r_n) |-> <<>>]
    /\ r_sent_set = [p \in Procs(r_n) |-> {}]
    /\ r_recorded = {}
    /\ r_ok = [a \in AcptNos |-> 0]
    /\ IdleLister /\ IdleFetcher /\ IdleExtract /\ IdleMain /\ IdleCell /\ IdleNorm /\ IdleSend
    /\ IdleRow /\ IdleCap /\ IdleDash /\ IdleCache /\ IdleMon

\* Line 691: sent_log = load_sent_log().
RaceLoad(p) ==
    /\ r_pc[p] = "load"
    /\ r_sent_log' = [r_sent_log EXCEPT ![p] = r_file]
    /\ r_pc' = [r_pc EXCEPT ![p] = "list"]
    /\ UNCHANGED <<r_n, r_file, r_queue, r_sent_set, r_recorded, r_ok>>
    /\ UNCHANGED <<listerVars, fetcherVars, extractVars, mainVars, cellVars, normVars, sendVars>>
    /\ UNCHANGED <<rowVars, capVars, dashVars, cacheVars, monVars>>

\* Lines 695-754: the listing, the filter on sent_log and the processing of
\* the new filings, every one of which yields a message.
RaceList(p) ==
    /\ r_pc[p] = "list"
    /\ r_queue' = [r_queue EXCEPT ![p] = Unsent(RaceListing, r_sent_log[p])]
    /\ r_pc' = [r_pc EXCEPT ![p] = IF r_queue'[p] = <<>> THEN "done" ELSE "send"]
    /\ UNCHANGED <<r_n, r_file, r_sent_log, r_sent_set, r_recorded, r_ok>>
    /\ UNCHANGED <<listerVars, fetcherVars, extractVars, mainVars, cellVars, normVars, sendVars>>
    /\ UNCHANGED <<rowVars, capVars, dashVars, cacheVars, monVars>>

\* Line 772: send_to_telegram(msg) returns True; add_to_sent_log is entered.
RaceSendOk(p) ==
    /\ r_pc[p] = "send"
    /\ r_ok[Head(r_queue[p])] < MaxSends
    /\ r_ok' = [r_ok EXCEPT ![Head(r_queue[p])] = @ + 1]
    /\ r_pc' = [r_pc EXCEPT ![p] = "read"]
    /\ UNCHANGED <<r_n, r_file, r_sent_log, r_queue, r_sent_set, r_recorded>>
    /\ UNCHANGED <<listerVars, fetcherVars, extractVars, mainVars, cellVars, normVars, sendVars>>
    /\ UNCHANGED <<rowVars, capVars, dashVars, cacheVars, monVars>>

\* Line 772: send_to_telegram(msg) returns False; the loop goes on.
RaceSendFails(p) ==
    /\ r_pc[p] = "send"
    /\ r_queue' = [r_queue EXCEPT ![p] = Tail(@)]
    /\ r_pc' = [r_pc EXCEPT ![p] = IF r_queue'[p] = <<>> THEN "done" ELSE "send"]
    /\ UNCHANGED <<r_n, r_file, r_sent_log, r_sent_set, r_recorded, r_ok>>
    /\ UNCHANGED <<listerVars, fetcherVars, extractVars, mainVars, cellVars, normVars, sendVars>>
    /\ UNCHANGED <<rowVars, capVars, dashVars, cacheVars, monVars>>

\* Line 124: sent_set = load_sent_log().
RaceRead(p) ==
    /\ r_pc[p] = "read"
    /\ r_sent_set' = [r_sent_set EXCEPT ![p] = r_file]
    /\ r_pc' = [r_pc EXCEPT ![p] = "write"]
    /\ UNCHANGED <<r_n, r_file, r_sent_log, r_queue, r_recorded, r_ok>>
    /\ UNCHANGED <<listerVars, fetcherVars, extractVars, mainVars, cellVars, normVars, sendVars>>
    /\ UNCHANGED <<rowVars, capVars, dashVars, cacheVars, monVars>>

\* Lines 125-126: the file is rewritten with the set read and the acptno;
\* the send loop goes on.
RaceWrite(p) ==
    /\ r_pc[p] = "write"
    /\ r_file' = WriteBack(r_sent_set[p], Head(r_queue[p]))
    /\ r_recorded' = r_recorded \cup {Head(r_queue[p])}
    /\ r_queue' = [r_queue EXCEPT ![p] = Tail(@)]
    /\ r_pc' = [r_pc EXCEPT ![p] = IF r_queue'[p] = <<>> THEN "done" ELSE "send"]
    /\ UNCHANGED <<r_n, r_sent_log, r_sent_set, r_ok>>
    /\ UNCHANGED <<listerVars, fetcherVars, extractVars, mainVars, cellVars, normVars, sendVars>>
    /\ UNCHANGED <<rowVars, capVars, dashVars, cacheVars, monVars>>

\* run_monitor: after the wait, the next cycle calls main again.
RaceNextCycle(p) ==
    /\ r_pc[p] = "done"
    /\ r_pc' = [r_pc EXCEPT ![p] = "load"]
    /\ UNCHANGED <<r_n, r_file, r_sent_log, r_queue, r_sent_set, r_recorded, r_ok>>
    /\ UNCHANGED <<listerVars, fetcherVars, extractVars, mainVars, cellVars, normVars, sendVars>>
    /\ UNCHANGED <<rowVars, capVars, dashVars, cacheVars, monVars>>

NextRace ==
    \E p \in Procs(r_n) :
        \/ RaceLoad(p)
        \/ RaceList(p)
        \/ RaceSendOk(p)
        \/ RaceSendFails(p)
        \/ RaceRead(p)
        \/ RaceWrite(p)
        \/ RaceNextCycle(p)

SpecRace == InitRace /\ [][NextRace]_vars

\* No add_to_sent_log is under way, and an acptno one of them recorded is
\* missing from the file.
LostUpdate ==
    /\ \A p \in Procs(r_n) : r_pc[p] \notin {"read", "write"}
    /\ \E a \in r_recorded : a \notin r_file

\* Two sends of the same acptno returned True.
DoubleSend == \E a \in AcptNos : r_ok[a] >= 2

MaxFilings == 1

HoursPerDay == 24

\* if 8 <= hour < 18
OPEN_HOUR == 8
CLOSE_HOUR == 18

\* The argument interval_minutes, in hours: 60 and 120 minutes. With these
\* `now.minute < interval_minutes` is true of every minute.
Intervals == {1, 2}

Filings == 1..MaxFilings

Today(n) == [n |-> n, old |-> FALSE]

LedgerEntries == [n : Filings, old : BOOLEAN]

\* The same file read on a later date.
Aged(file) == {[n |-> e.n, old |-> TRUE] : e \in file}

\* Lines 131-135: the entries that start with today's date.
clear_old_sent_log(file) == {e \in file : ~e.old}

ActiveHoursInclusive(hour) == OPEN_HOUR <= hour /\ hour <= CLOSE_HOUR

\* Line 832.
ActiveHours(hour) == OPEN_HOUR <= hour /\ hour < CLOSE_HOUR

NewFilingsAll(listing, sent) == listing

\* Line 704: the listed filings whose acptno is not in sent_log.
NewFilings(listing, sent) == {n \in listing : Today(n) \notin sent}

RECURSIVE InOrder(_)
\* The rows of a frame in document order: by filing number.
InOrder(ns) ==
    IF ns = {} THEN <<>>
    ELSE LET first == CHOOSE n \in ns : \A o \in ns : n <= o
         IN  <<first>> \o InOrder(ns \ {first})

NoEvent == [kind |-> "none", listed |-> {}, queued |-> {}, n |-> 0]

Event(kind, n) == [kind |-> kind, listed |-> {}, queued |-> {}, n |-> n]

\* The clock and the per-date histories after d more hours.
DayChange(d) == v_clock + d >= HoursPerDay

ClockAfter(d) == (v_clock + d) % HoursPerDay

FileAfter(d, file) == IF DayChange(d) THEN Aged(file) ELSE file

OkAfter(d) == IF DayChange(d) THEN [n \in Filings |-> 0] ELSE v_ok

CutAfter(d) == IF DayChange(d) THEN FALSE ELSE v_cut

UnsentAfter(d) == IF DayChange(d) THEN {} ELSE v_unsent

RecordedNothing(file, n) == file

\* Lines 124-126: the file after add_to_sent_log(acptno).
Recorded(file, n) == file \cup {Today(n)}

InitMonitor ==
    /\ v_pc = "start"
    /\ v_interval \in Intervals
    /\ v_clock \in 0..(HoursPerDay - 1)
    /\ v_now = 0
    /\ v_file \in SUBSET LedgerEntries
    /\ v_sent_log = {}
    /\ v_queue = <<>>
    /\ v_t = 0
    /\ v_ok = [n \in Filings |-> 0]
    /\ v_cut = FALSE
    /\ v_unsent = {}
    /\ v_event = NoEvent
    /\ IdleLister /\ IdleFetcher /\ IdleExtract /\ IdleMain /\ IdleCell /\ IdleNorm /\ IdleSend
    /\ IdleRow /\ IdleCap /\ IdleDash /\ IdleCache /\ IdleRace

\* Line 823: clear_old_sent_log() before the loop.
Startup ==
    /\ v_pc = "start"
    /\ v_file' = clear_old_sent_log(v_file)
    /\ v_pc' = "cycle"
    /\ v_event' = NoEvent
    /\ UNCHANGED <<v_unsent, v_interval, v_clock, v_now, v_sent_log, v_queue, v_t, v_ok, v_cut>>
    /\ UNCHANGED <<listerVars, fetcherVars, extractVars, mainVars, cellVars, normVars, sendVars>>
    /\ UNCHANGED <<rowVars, capVars, dashVars, cacheVars, raceVars>>

\* Lines 827-832 and 841-844: now, hour, the window test; outside the window
\* the cycle goes straight to the wait.
CycleStart ==
    /\ v_pc = "cycle"
    /\ v_now' = v_clock
    /\ v_pc' = IF ActiveHours(v_clock) THEN "main" ELSE "sleep"
    /\ v_event' = Event(IF ActiveHours(v_clock) THEN "none" ELSE "off_hours", 0)
    /\ UNCHANGED <<v_unsent, v_interval, v_clock, v_file, v_sent_log, v_queue, v_t, v_ok, v_cut>>
    /\ UNCHANGED <<listerVars, fetcherVars, extractVars, mainVars, cellVars, normVars, sendVars>>
    /\ UNCHANGED <<rowVars, capVars, dashVars, cacheVars, raceVars>>

\* main, lines 691-754: the ledger is loaded, the day's listing is fetched
\* and filtered, the new filings are processed. An interrupt that arrives
\* inside load_sent_log is caught by its bare except (line 107) and the
\* function returns the empty set. The cycle takes no time or an hour.
MainList ==
    /\ v_pc = "main"
    /\ \E listing \in SUBSET Filings, normalized \in SUBSET Filings,
          d \in {0, 1}, swallowed \in BOOLEAN :
          LET sent_log_read == IF swallowed THEN {} ELSE v_file
              new == NewFilings(listing, sent_log_read)
              queue == InOrder(new \cap normalized)
          IN  /\ v_cut' = (v_cut \/ swallowed)
              /\ v_clock' = v_clock + d
              /\ v_event' = [kind |-> "main", listed |-> listing,
                             queued |-> new \cap normalized, n |-> 0]
              /\ IF queue = <<>>
                 THEN /\ v_pc' = "sleep"
                      /\ v_sent_log' = {}
                      /\ v_queue' = <<>>
                 ELSE /\ v_pc' = "save"
                      /\ v_sent_log' = sent_log_read
                      /\ v_queue' = queue
    /\ UNCHANGED <<v_unsent, v_interval, v_now, v_file, v_t, v_ok>>
    /\ UNCHANGED <<listerVars, fetcherVars, extractVars, mainVars, cellVars, normVars, sendVars>>
    /\ UNCHANGED <<rowVars, capVars, dashVars, cacheVars, raceVars>>

\* main, lines 762-763: save_all_to_excel, which has no exception handler.
\* When it raises (the workbook cannot be written), main raises and
\* run_monitor's `except Exception` takes over.
SaveExcel ==
    /\ v_pc = "save"
    /\ \E written \in BOOLEAN :
          IF written
          THEN /\ v_pc' = "send"
               /\ v_t' = 1
               /\ v_event' = Event("saved", 0)
               /\ UNCHANGED <<v_sent_log, v_queue>>
          ELSE /\ v_pc' = "fail_wait"
               /\ v_t' = 0
               /\ v_sent_log' = {}
               /\ v_queue' = <<>>
               /\ v_event' = Event("save_failed", 0)
    /\ UNCHANGED <<v_unsent, v_interval, v_clock, v_now, v_file, v_ok, v_cut>>
    /\ UNCHANGED <<listerVars, fetcherVars, extractVars, mainVars, cellVars, normVars, sendVars>>
    /\ UNCHANGED <<rowVars, capVars, dashVars, cacheVars, raceVars>>

\* main, lines 771-772: send_to_telegram(msg) for the next filing.
SendOne ==
    /\ v_pc = "send"
    /\ v_t <= Len(v_queue)
    /\ \E ok \in BOOLEAN :
          IF ok
          THEN /\ v_ok[v_queue[v_t]] < MaxSends
               /\ v_ok' = [v_ok EXCEPT ![v_queue[v_t]] = @ + 1]
               /\ v_pc' = "add_log"
               /\ v_event' = Event("send_true", v_queue[v_t])
               /\ UNCHANGED <<v_t, v_unsent>>
          ELSE /\ v_t' = v_t + 1
               /\ v_unsent' = v_unsent \cup {v_queue[v_t]}
               /\ v_event' = Event("send_false", v_queue[v_t])
               /\ UNCHANGED <<v_ok, v_pc>>
    /\ UNCHANGED <<v_interval, v_clock, v_now, v_file, v_sent_log, v_queue, v_cut>>
    /\ UNCHANGED <<listerVars, fetcherVars, extractVars, mainVars, cellVars, normVars, sendVars>>
    /\ UNCHANGED <<rowVars, capVars, dashVars, cacheVars, raceVars>>

\* main, line 774: add_to_sent_log(acptno).
AddLog ==
    /\ v_pc = "add_log"
    /\ v_file' = Recorded(v_file, v_queue[v_t])
    /\ v_t' = v_t + 1
    /\ v_pc' = "send"
    /\ v_event' = Event("recorded", v_queue[v_t])
    /\ UNCHANGED <<v_unsent, v_interval, v_clock, v_now, v_sent_log, v_queue, v_ok, v_cut>>
    /\ UNCHANGED <<listerVars, fetcherVars, extractVars, mainVars, cellVars, normVars, sendVars>>
    /\ UNCHANGED <<rowVars, capVars, dashVars, cacheVars, raceVars>>

\* main, line 805: the send loop is over and main returns.
MainReturn ==
    /\ v_pc = "send"
    /\ v_t > Len(v_queue)
    /\ v_pc' = "sleep"
    /\ v_t' = 0
    /\ v_sent_log' = {}
    /\ v_queue' = <<>>
    /\ v_event' = Event("returned", 0)
    /\ UNCHANGED <<v_unsent, v_interval, v_clock, v_now, v_file, v_ok, v_cut>>
    /\ UNCHANGED <<listerVars, fetcherVars, extractVars, mainVars, cellVars, normVars, sendVars>>
    /\ UNCHANGED <<rowVars, capVars, dashVars, cacheVars, raceVars>>

\* Lines 844-848: time.sleep(interval_minutes * 60), then the purge when the
\* cycle's `now` was in hour 0.
SleepAndPurge ==
    /\ v_pc = "sleep"
    /\ v_clock' = ClockAfter(v_interval)
    /\ v_file' = IF v_now = 0
                 THEN clear_old_sent_log(FileAfter(v_interval, v_file))
                 ELSE FileAfter(v_interval, v_file)
    /\ v_ok' = OkAfter(v_interval)
    /\ v_cut' = CutAfter(v_interval)
    /\ v_unsent' = UnsentAfter(v_interval)
    /\ v_pc' = "cycle"
    /\ v_event' = Event(IF v_now = 0 THEN "purged" ELSE "waited", 0)
    /\ UNCHANGED <<v_interval, v_now, v_sent_log, v_queue, v_t>>
    /\ UNCHANGED <<listerVars, fetcherVars, extractVars, mainVars, cellVars, normVars, sendVars>>
    /\ UNCHANGED <<rowVars, capVars, dashVars, cacheVars, raceVars>>

\* Lines 853-856: the handler of any other exception waits a minute, and the
\* loop goes on; the minute may end the hour.
FailWait ==
    /\ v_pc = "fail_wait"
    /\ \E d \in {0, 1} :
          /\ v_clock' = ClockAfter(d)
          /\ v_file' = FileAfter(d, v_file)
          /\ v_ok' = OkAfter(d)
          /\ v_cut' = CutAfter(d)
          /\ v_unsent' = UnsentAfter(d)
    /\ v_pc' = "cycle"
    /\ v_event' = Event("retried", 0)
    /\ UNCHANGED <<v_interval, v_now, v_sent_log, v_queue, v_t>>
    /\ UNCHANGED <<listerVars, fetcherVars, extractVars, mainVars, cellVars, normVars, sendVars>>
    /\ UNCHANGED <<rowVars, capVars, dashVars, cacheVars, raceVars>>

\* A KeyboardInterrupt inside the try block (lines 826-848) is caught at line
\* 850 and the loop breaks. Between a send that returned True and the end of
\* add_to_sent_log it leaves the filing sent and not recorded.
Interrupt ==
    /\ v_pc \in {"cycle", "main", "save", "send", "add_log", "sleep"}
    /\ v_pc' = "stopped"
    /\ v_cut' = (v_cut \/ v_pc = "add_log")
    /\ v_t' = 0
    /\ v_sent_log' = {}
    /\ v_queue' = <<>>
    /\ v_event' = Event("interrupt", 0)
    /\ UNCHANGED <<v_unsent, v_interval, v_clock, v_now, v_file, v_ok>>
    /\ UNCHANGED <<listerVars, fetcherVars, extractVars, mainVars, cellVars, normVars, sendVars>>
    /\ UNCHANGED <<rowVars, capVars, dashVars, cacheVars, raceVars>>

\* A KeyboardInterrupt inside time.sleep(60) of line 856 is raised in an
\* except clause: no handler of the try statement applies and it leaves
\* run_monitor.
InterruptInHandler ==
    /\ v_pc = "fail_wait"
    /\ v_pc' = "escaped"
    /\ v_event' = Event("interrupt", 0)
    /\ UNCHANGED <<v_unsent, v_interval, v_clock, v_now, v_file, v_sent_log, v_queue, v_t, v_ok, v_cut>>
    /\ UNCHANGED <<listerVars, fetcherVars, extractVars, mainVars, cellVars, normVars, sendVars>>
    /\ UNCHANGED <<rowVars, capVars, dashVars, cacheVars, raceVars>>

\* An hour passes while no monitor runs.
HourDown ==
    /\ v_pc \in {"stopped", "escaped"}
    /\ v_clock' = ClockAfter(1)
    /\ v_file' = FileAfter(1, v_file)
    /\ v_ok' = OkAfter(1)
    /\ v_cut' = CutAfter(1)
    /\ v_unsent' = UnsentAfter(1)
    /\ v_event' = NoEvent
    /\ UNCHANGED <<v_pc, v_interval, v_now, v_sent_log, v_queue, v_t>>
    /\ UNCHANGED <<listerVars, fetcherVars, extractVars, mainVars, cellVars, normVars, sendVars>>
    /\ UNCHANGED <<rowVars, capVars, dashVars, cacheVars, raceVars>>

\* The monitor is started again: run_monitor(interval_minutes).
Restart ==
    /\ v_pc \in {"stopped", "escaped"}
    /\ v_pc' = "start"
    /\ v_interval' \in Intervals
    /\ v_event' = Event("restart", 0)
    /\ UNCHANGED <<v_unsent, v_clock, v_now, v_file, v_sent_log, v_queue, v_t, v_ok, v_cut>>
    /\ UNCHANGED <<listerVars, fetcherVars, extractVars, mainVars, cellVars, normVars, sendVars>>
    /\ UNCHANGED <<rowVars, capVars, dashVars, cacheVars, raceVars>>

\* The steps of run_monitor itself.
MonitorStep ==
    \/ Startup
    \/ CycleStart
    \/ MainList
    \/ SaveExcel
    \/ SendOne
    \/ AddLog
    \/ MainReturn
    \/ SleepAndPurge
    \/ FailWait

NextMonitor == MonitorStep \/ Interrupt \/ InterruptInHandler \/ HourDown \/ Restart

SpecMonitor == InitMonitor /\ [][NextMonitor]_vars

\* The interpreter always takes the next step of a running monitor.
FairMonitor == SpecMonitor /\ WF_vars(MonitorStep)
(***************************************************************************)
(* Claims about run_monitor.                                               *)
(***************************************************************************)

\* C21: whenever a cycle of the monitor has loaded the ledger, the set it
\* loaded holds no acptno of an earlier date.
LedgerScoped ==
    \A e \in v_sent_log : ~e.old

\* C22: the listing request, the processing and the sends of the monitor
\* happen only in a cycle whose `now` has an hour h with 8 <= h < 18; a cycle
\* that starts at another hour goes from its start to the wait.
ActiveWindow ==
    /\ v_pc \in {"main", "save", "send", "add_log"} =>
          (OPEN_HOUR <= v_now /\ v_now < CLOSE_HOUR)
    /\ v_event.kind \in {"main", "saved", "send_true", "send_false", "recorded"} =>
          (OPEN_HOUR <= v_now /\ v_now < CLOSE_HOUR)
    /\ v_event.kind = "off_hours" =>
          (v_pc = "sleep" /\ ~(OPEN_HOUR <= v_now /\ v_now < CLOSE_HOUR))

\* C22 witness: a cycle that started at 17 is sending, and the clock has
\* reached 18.
ActiveWindowWitness ==
    v_pc = "send" /\ v_now = CLOSE_HOUR - 1 /\ v_clock = CLOSE_HOUR

\* C25: an interrupt never leaves run_monitor as an exception: wherever it
\* arrives, the loop is stopped by the handler of line 850.
InterruptStopsCleanly ==
    v_pc # "escaped"

KeepsRunning == <>[](v_pc \notin {"stopped", "escaped"})

\* A cycle found filing 1 listed, not in the ledger, and normalized it.
Rediscovered == v_event.kind = "main" /\ 1 \in v_event.queued

\* A cycle with filing 1 in telegram_data got past save_all_to_excel.
ReachedSend == v_event.kind = "saved" /\ \E k \in 1..Len(v_queue) : v_queue[k] = 1

Attempted == v_event.kind \in {"send_true", "send_false"} /\ v_event.n = 1

Succeeded == v_event.kind = "send_true" /\ v_event.n = 1

\* Unless an interrupt disturbed a ledger operation, a filing is attempted
\* only while it is not in the ledger.
AttemptedOnlyUnrecorded == [](~v_cut /\ Attempted => Today(1) \notin v_file)

====
